---- MODULE Spec2Model ----
(***************************************************************************)
(* A model of the example scripts of vtk-examples:                         *)
(*   src/Python/Rendering/PBR_Skybox_Texturing.py                          *)
(*   src/Python/Rendering/PhysicallyBasedRendering.py                      *)
(*   src/Python/Visualization/Froggie.py                                   *)
(* main() is a sequential program; each step of it is an action, the       *)
(* helper functions are operators.  Strings are sequences of one-character *)
(* strings, so that suffixes, lower-casing and substring tests are         *)
(* computed the way Python computes them.                                  *)
(***************************************************************************)
EXTENDS Integers, Sequences, FiniteSets, TLC

VARIABLES vtk_version,  \* the version of the installed toolkit, <<major, minor, build>>
          argv,         \* the parsed command line: [fn, surface, use_cubemap]
          json,         \* the content of the JSON parameter file (a function on its keys)
          pc,           \* the position of main
          out,          \* the messages printed so far
          exc,          \* the exception that left main, "none" if none
          paths_ok,     \* main's local paths_ok
          parameters,   \* main's local parameters
          env,          \* main's locals of the environment selection
          tex,          \* main's locals base_color, normal, material, emissive
          surface,      \* main's local surface
          scene,        \* what has been given to the renderers and the actor
          file_name,    \* the file name handed to PrintCallback
          print_cb,     \* the PrintCallback object
          keys,         \* the key-press events delivered so far
          written,      \* the screenshot files written so far
          sliders,      \* the slider widgets main has made, by the name of their variable
          props,        \* what the tone mapping pass and the actor's property have been set to
          events,       \* the interaction events of the sliders delivered so far
          locals        \* the locals of the main of the other scripts and of single calls

vars == <<vtk_version, argv, json, pc, out, exc, paths_ok, parameters, env, tex,
          surface, scene, file_name, print_cb, keys, written, sliders, props, events,
          locals>>

-----------------------------------------------------------------------------
(* Bounds *)

\* The number of keys of a parameter file that differ from the reference file.
MaxDeviations == 2
\* The number of leading entries of a cubemap list that vary: each of them is the
\* name of an existing file, empty, or the name of a missing file.
CubemapVaried == 3
\* The number of key-press events delivered to the interactor.
MaxKeys == 3
\* The number of interaction events of the sliders delivered to the callbacks.
MaxSliderEvents == 3
\* The number of equal steps between the minimum and the maximum of a slider
\* that a drag can stop at.
SliderSteps == 2
\* The number of tissue names on the command line of Froggie.
MaxTissues == 2

-----------------------------------------------------------------------------
(* Strings: str.lower, the `in` test of two strings *)

UpperCase == <<"B", "C", "G", "H", "J", "N", "P", "T", "X">>
LowerCase == <<"b", "c", "g", "h", "j", "n", "p", "t", "x">>

lower_char(c) ==
    IF \E i \in 1..Len(UpperCase) : UpperCase[i] = c
    THEN LowerCase[CHOOSE i \in 1..Len(UpperCase) : UpperCase[i] = c]
    ELSE c

lower(s) == [i \in 1..Len(s) |-> lower_char(s[i])]

\* a in b, for two strings
str_in(a, b) ==
    \E i \in 0..(Len(b) - Len(a)) : SubSeq(b, i + 1, i + Len(a)) = a

-----------------------------------------------------------------------------
(* pathlib.Path: a path is [abs, parts], parts the sequence of its components *)

Keep(cur) == IF cur = <<>> \/ cur = <<".">> THEN <<>> ELSE <<cur>>

RECURSIVE PartsAcc(_, _)
PartsAcc(s, cur) ==
    IF s = <<>> THEN Keep(cur)
    ELSE IF Head(s) = "/" THEN Keep(cur) \o PartsAcc(Tail(s), <<>>)
    ELSE PartsAcc(Tail(s), Append(cur, Head(s)))

Path(s) == [abs |-> (s # <<>> /\ s[1] = "/"), parts |-> PartsAcc(s, <<>>)]

\* The working directory of the process.
Cwd == [abs |-> TRUE, parts |-> << <<"w">> >>]

absolute(p) == IF p.abs THEN p ELSE [abs |-> TRUE, parts |-> Cwd.parts \o p.parts]

name(p) == IF p.parts = <<>> THEN <<>> ELSE p.parts[Len(p.parts)]

\* str.rfind('.') + 1: the last position of a dot, 0 when there is none
rfind_dot(n) ==
    IF \E i \in 1..Len(n) : n[i] = "."
    THEN CHOOSE i \in 1..Len(n) : n[i] = "." /\ \A j \in (i + 1)..Len(n) : n[j] # "."
    ELSE 0

suffix(p) ==
    LET n == name(p)
        i == rfind_dot(n)
    IN  IF 1 < i /\ i < Len(n) THEN SubSeq(n, i, Len(n)) ELSE <<>>

stem(p) ==
    LET n == name(p)
        i == rfind_dot(n)
    IN  IF 1 < i /\ i < Len(n) THEN SubSeq(n, 1, i - 1) ELSE n

\* Path.with_suffix raises ValueError on a path with an empty name
with_suffix_raises(p) == name(p) = <<>>

with_suffix(p, ext) ==
    [abs |-> p.abs,
     parts |-> SubSeq(p.parts, 1, Len(p.parts) - 1) \o <<stem(p) \o ext>>]

parent(p) ==
    IF p.parts = <<>> THEN p
    ELSE [abs |-> p.abs, parts |-> SubSeq(p.parts, 1, Len(p.parts) - 1)]

\* p / s
join(p, s) ==
    LET q == Path(s)
    IN  IF q.abs THEN q ELSE [abs |-> p.abs, parts |-> p.parts \o q.parts]

NoPath == [abs |-> FALSE, parts |-> <<>>]

-----------------------------------------------------------------------------
(* The files on disk.  Relative names are resolved against the working     *)
(* directory of the process, as the operating system does.                 *)

S_json == <<".", "j", "s", "o", "n">>
S_png  == <<".", "p", "n", "g">>
S_jpg  == <<".", "j", "p", "g">>
S_jpeg == <<".", "j", "p", "e", "g">>
S_hdr  == <<".", "h", "d", "r">>
S_pic  == <<".", "p", "i", "c">>

\* the parameter file and one that does not exist
FnJson     == <<"d", "/", "p">> \o S_json
FnNoSuffix == <<"d", "/", "p">>
FnGone     == <<"d", "/", "x">> \o S_json
FnGoneNoSuffix == <<"d", "/", "x">>

\* texture files, named relative to the parameter file
TexPng   == <<"t">> \o S_png
TexUpper == <<"t", ".", "P", "N", "G">>
TexTxt   == <<"t", ".", "t", "x", "t">>
TexJpeg  == <<"t">> \o S_jpeg
TexGone  == <<"x">> \o S_png
CoatAbs  == <<"/", "a", "/", "c">> \o S_png

\* equirectangular files: Radiance HDR content, a truncated one, a JPEG,
\* HDR content under another extension
EquiHdr   == <<"e">> \o S_hdr
EquiBad   == <<"u">> \o S_hdr
EquiJpg   == <<"e">> \o S_jpg
EquiDat   == <<"e", ".", "d", "a", "t">>
EquiGone  == <<"x">> \o S_hdr
\* HDR content under a name without suffix and under the suffix .h
EquiPlain == <<"e">>
EquiH     == <<"e", ".", "h">>

\* the cubemap files: face i is <i>.jpg, and x<i>.jpg does not exist
Digit == <<"1", "2", "3", "4", "5", "6", "7">>
Face(i)     == <<Digit[i]>> \o S_jpg
FaceGone(i) == <<"x", Digit[i]>> \o S_jpg

InD(s) == absolute(join(Path(<<"d">>), s))

Files ==
    {InD(<<"p">> \o S_json), InD(TexPng), InD(TexUpper), InD(TexTxt), InD(TexJpeg),
     InD(EquiHdr), InD(EquiBad), InD(EquiJpg), InD(EquiDat), InD(EquiPlain),
     InD(EquiH), Path(CoatAbs)}
    \cup {InD(Face(i)) : i \in 1..7}

Dirs == {Cwd, InD(<<>>), Path(<<"/", "a">>), Path(<<"/">>)}

\* the files vtkHDRReader.CanReadFile accepts: those with a Radiance header
HdrReadable == {InD(EquiHdr), InD(EquiDat), InD(EquiPlain), InD(EquiH)}


-----------------------------------------------------------------------------
(* PhysicallyBasedRendering.py: the files on disk and the inputs of a run. *)
(* The names of the command line are resolved against the working          *)
(* directory.                                                              *)

N_skybox0 == <<"s", "k", "y", "b", "o", "x", "0">>
N_skybox1 == <<"s", "k", "y", "b", "o", "x", "1">>
N_skybox2 == <<"s", "k", "y", "b", "o", "x", "2">>

\* the dictionary skybox_files of main, lines 41-50
skybox_files_keys == {N_skybox0, N_skybox1, N_skybox2}

skybox_files(k) ==
    IF k = N_skybox0
    THEN <<<<"r", "i", "g", "h", "t", ".", "j", "p", "g">>,
           <<"l", "e", "f", "t", ".", "j", "p", "g">>,
           <<"t", "o", "p", ".", "j", "p", "g">>,
           <<"b", "o", "t", "t", "o", "m", ".", "j", "p", "g">>,
           <<"f", "r", "o", "n", "t", ".", "j", "p", "g">>,
           <<"b", "a", "c", "k", ".", "j", "p", "g">>>>
    ELSE IF k = N_skybox1
    THEN <<<<"s", "k", "y", "b", "o", "x", "-", "p", "x", ".", "j", "p", "g">>,
           <<"s", "k", "y", "b", "o", "x", "-", "n", "x", ".", "j", "p", "g">>,
           <<"s", "k", "y", "b", "o", "x", "-", "p", "y", ".", "j", "p", "g">>,
           <<"s", "k", "y", "b", "o", "x", "-", "n", "y", ".", "j", "p", "g">>,
           <<"s", "k", "y", "b", "o", "x", "-", "p", "z", ".", "j", "p", "g">>,
           <<"s", "k", "y", "b", "o", "x", "-", "n", "z", ".", "j", "p", "g">>>>
    ELSE <<<<"p", "o", "s", "x", ".", "j", "p", "g">>,
         <<"n", "e", "g", "x", ".", "j", "p", "g">>,
         <<"p", "o", "s", "y", ".", "j", "p", "g">>,
         <<"n", "e", "g", "y", ".", "j", "p", "g">>,
         <<"p", "o", "s", "z", ".", "j", "p", "g">>,
         <<"n", "e", "g", "z", ".", "j", "p", "g">>>>

\* the folders of cubemaps: s/skybox0 is complete, s/skybox1 lacks its third
\* file, s/skybox2 lacks its last file, s/other holds the files of skybox0,
\* s/gone does not exist
InS(s) == absolute(join(Path(<<"s">>), s))
N_other == <<"o", "t", "h", "e", "r">>
N_gone == <<"g", "o", "n", "e">>

Pbr_Path(n) == <<"s", "/">> \o n

Pbr_Files ==
    {join(InS(N_skybox0), skybox_files(N_skybox0)[i]) : i \in 1..6}
    \cup {join(InS(N_skybox1), skybox_files(N_skybox1)[i]) : i \in {1, 2, 4, 5, 6}}
    \cup {join(InS(N_skybox2), skybox_files(N_skybox2)[i]) : i \in 1..5}
    \cup {join(InS(N_other), skybox_files(N_skybox0)[i]) : i \in 1..6}

Pbr_Dirs == {InS(<<>>), InS(N_skybox0), InS(N_skybox1), InS(N_skybox2), InS(N_other)}

-----------------------------------------------------------------------------
(* Froggie.py: the names of the tissues and the files on disk.  The folder *)
(* f holds blood.vtk, brainbin.vtk, skin.vtk and frog.vtk; there is no     *)
(* folder g.                                                               *)

S_vtk == <<".", "v", "t", "k">>

T_blood == <<"b", "l", "o", "o", "d">>
T_brain == <<"b", "r", "a", "i", "n">>
T_brainbin == <<"b", "r", "a", "i", "n", "b", "i", "n">>
T_duodenum == <<"d", "u", "o", "d", "e", "n", "u", "m">>
T_eye_retna == <<"e", "y", "e", "_", "r", "e", "t", "n", "a">>
T_eye_white == <<"e", "y", "e", "_", "w", "h", "i", "t", "e">>
T_heart == <<"h", "e", "a", "r", "t">>
T_ileum == <<"i", "l", "e", "u", "m">>
T_kidney == <<"k", "i", "d", "n", "e", "y">>
T_l_intestine == <<"l", "_", "i", "n", "t", "e", "s", "t", "i", "n", "e">>
T_liver == <<"l", "i", "v", "e", "r">>
T_lung == <<"l", "u", "n", "g">>
T_nerve == <<"n", "e", "r", "v", "e">>
T_skeleton == <<"s", "k", "e", "l", "e", "t", "o", "n">>
T_spleen == <<"s", "p", "l", "e", "e", "n">>
T_stomach == <<"s", "t", "o", "m", "a", "c", "h">>
T_skin == <<"s", "k", "i", "n">>

\* two names that are not tissues
N_frog == <<"f", "r", "o", "g">>
N_tail == <<"t", "a", "i", "l">>

InF(n) == absolute(join(Path(<<"f">>), n))

Frog_Files == {InF(T_blood \o S_vtk), InF(T_brainbin \o S_vtk), InF(T_skin \o S_vtk),
               InF(N_frog \o S_vtk)}
Frog_Dirs == {InF(<<>>)}

AllFiles == Files \cup Pbr_Files \cup Frog_Files
AllDirs == Dirs \cup Pbr_Dirs \cup Frog_Dirs

is_file(p) == absolute(p) \in AllFiles
is_dir(p)  == absolute(p) \in AllDirs

-----------------------------------------------------------------------------
(* The inputs of a run: the installed version, the command line and the    *)
(* parameter file.  A run differs from the reference run in at most        *)
(* MaxDeviations of them.                                                  *)

JsonKeys == {"object", "objcolor", "bkgcolor", "skybox", "cubemap", "equirectangular",
             "albedo", "normal", "material", "coat", "anisotropy", "emissive", "title"}
\* the order of the keys in the parameter file
KeyOrder == <<"object", "objcolor", "bkgcolor", "skybox", "cubemap", "equirectangular",
              "albedo", "normal", "material", "coat", "anisotropy", "emissive", "title">>
ArgKeys == {"$vtk", "$fn", "$surface", "$use_cubemap"}
InputKeys == JsonKeys \cup ArgKeys

Has(v) == [has |-> TRUE, val |-> v]
Absent == [has |-> FALSE, val |-> <<>>]

N_Boy  == <<"B", "o", "y">>
N_Cube == <<"C", "u", "b", "e">>
N_Torus == <<"T", "o", "r", "u", "s">>
N_ClippedCube == <<"C", "l", "i", "p", "p", "e", "d", "C", "u", "b", "e">>

Base(k) ==
    CASE k = "$vtk" -> Has(<<9, 3, 0>>)
      [] k = "$fn" -> Has(FnJson)
      [] k = "$surface" -> Has(<<>>)
      [] k = "$use_cubemap" -> Has(FALSE)
      [] k = "object" -> Has(N_Cube)
      [] k = "objcolor" -> Has("Red")
      [] k = "bkgcolor" -> Has("Blue")
      [] k = "skybox" -> Has(TRUE)
      [] k = "cubemap" -> Has([i \in 1..6 |-> Face(i)])
      [] k = "equirectangular" -> Has(EquiHdr)
      [] k \in {"albedo", "normal", "material", "emissive"} -> Has(TexPng)
      [] OTHER -> Absent

Alt(k) ==
    CASE k = "$vtk" -> <<Has(<<8, 90, 0>>), Has(<<9, 0, 0>>)>>
      [] k = "$fn" -> <<Has(FnNoSuffix), Has(FnGone), Has(FnGoneNoSuffix)>>
      [] k = "$surface" -> <<Has(N_Torus), Has(N_ClippedCube), Has(N_frog)>>
      [] k = "$use_cubemap" -> <<Has(TRUE)>>
      [] k = "object" -> <<Absent, Has(<<>>)>>
      [] k = "objcolor" -> <<Absent>>
      [] k = "bkgcolor" -> <<Absent>>
      [] k = "skybox" -> <<Absent, Has(FALSE)>>
      [] k = "equirectangular" ->
            <<Absent, Has(<<>>), Has(EquiGone), Has(EquiBad), Has(EquiJpg), Has(EquiDat),
              Has(EquiPlain), Has(EquiH)>>
      [] k = "albedo" ->
            <<Absent, Has(<<>>), Has(TexGone), Has(TexTxt), Has(TexUpper), Has(TexJpeg)>>
      [] k \in {"normal", "material", "emissive"} ->
            <<Absent, Has(<<>>), Has(TexGone), Has(TexTxt)>>
      [] k = "coat" -> <<Has(CoatAbs), Has(<<>>)>>
      [] k = "anisotropy" -> <<Has(TexPng), Has(TexGone)>>
      [] k = "title" -> <<Has("Example")>>
      [] OTHER -> <<>>

\* the most alternatives any key but cubemap has
MaxAlt == Len(Alt("equirectangular"))

\* cubemap lists: six entries of which the leading CubemapVaried vary, and lists
\* of another length
CubemapSix ==
    {[i \in 1..6 |-> IF i \notin DOMAIN e \/ e[i] = "file" THEN Face(i)
                     ELSE IF e[i] = "empty" THEN <<>> ELSE FaceGone(i)]
     : e \in [1..CubemapVaried -> {"file", "empty", "gone"}]}

CubemapAlt ==
    {Absent} \cup {Has(v) : v \in CubemapSix \ {Base("cubemap").val}}
    \cup {Has([i \in 1..n |-> Face(i)]) : n \in {0, 5, 7}}

\* the sets of inputs that differ from the reference run
Deviations == {S \in SUBSET InputKeys : Cardinality(S) <= MaxDeviations}

\* the choice of an alternative for each key of D but cubemap
AltChoices(D) ==
    {g \in [D \ {"cubemap"} -> 1..MaxAlt] : \A k \in D \ {"cubemap"} : g[k] <= Len(Alt(k))}

CubemapChoices(D) == IF "cubemap" \in D THEN CubemapAlt ELSE {Base("cubemap")}

InputOf(D, f, c) ==
    [k \in InputKeys |->
        IF k = "cubemap" THEN c ELSE IF k \in D THEN Alt(k)[f[k]] ELSE Base(k)]

JsonOf(inp) == [k \in {j \in JsonKeys : inp[j].has} |-> inp[k].val]
ArgvOf(inp) == [fn |-> inp["$fn"].val, surface |-> inp["$surface"].val,
                use_cubemap |-> inp["$use_cubemap"].val]

-----------------------------------------------------------------------------
(* vtk_version_ok, the same function in PBR_Skybox_Texturing.py and in      *)
(* PhysicallyBasedRendering.py.  A version number                          *)
(* 10000000000 * major + 100000000 * minor + build is kept as its two      *)
(* digits <<high, low>> in base 100000000, Python's integers being         *)
(* unbounded.                                                              *)

\* the factor of minor at line 434
VersionBase == 100000000

\* 10000000000 * major + 100000000 * minor + build
version_number(major, minor, build) ==
    <<100 * major + minor + (build \div VersionBase), build % VersionBase>>

\* a >= b, for two version numbers
number_ge(a, b) == a[1] > b[1] \/ (a[1] = b[1] /\ a[2] >= b[2])

\* the test of vtk_version_ok with its two sides exchanged
vtk_version_ok_reversed(actual, major, minor, build) ==
    LET needed_version == version_number(major, minor, build)
        vtk_version_number == version_number(actual[1], actual[2], actual[3])
    IN  IF number_ge(needed_version, vtk_version_number) THEN TRUE ELSE FALSE

\* vtk_version_ok(major, minor, build), given the <<major, minor, build>> of the
\* installed toolkit
vtk_version_ok(actual, major, minor, build) ==
    LET needed_version == version_number(major, minor, build)
        vtk_version_number == version_number(actual[1], actual[2], actual[3])
    IN  IF number_ge(vtk_version_number, needed_version) THEN TRUE ELSE FALSE

-----------------------------------------------------------------------------
(* get_parameters *)

allowed_keys_no_paths == {"object", "objcolor", "bkgcolor", "skybox"}
allowed_keys_paths == {"cubemap", "equirectangular", "albedo", "normal", "material",
                       "coat", "anisotropy", "emissive"}

\* the number of file names a cubemap needs
CubemapFiles == 6

\* d with d[k] = v
Put(d, k, v) == [j \in DOMAIN d \cup {k} |-> IF j = k THEN v ELSE d[j]]

Say(st, msg) == [st EXCEPT !.out = Append(@, msg)]

\* the value of cm[idx] in print('Not a file:', cm[idx]); idx counts from 0 in
\* the code and from 1 here
cm_index_ok(cm, idx) == idx <= Len(cm)

\* lines 478-488: the loop over the entries of a cubemap list of six.
\* st = [cm, paths_ok, out, exc]
RECURSIVE cubemap_loop(_, _, _, _)
cubemap_loop(fn_path, v, idx, st) ==
    IF idx > Len(v) THEN st
    ELSE IF v[idx] # <<>>
    THEN LET cm == Append(st.cm, join(parent(fn_path), v[idx]))
         IN  IF is_file(cm[Len(cm)])
             THEN cubemap_loop(fn_path, v, idx + 1, [st EXCEPT !.cm = cm])
             ELSE IF cm_index_ok(cm, idx)
             THEN cubemap_loop(fn_path, v, idx + 1,
                      Say([st EXCEPT !.cm = cm, !.paths_ok = FALSE], "Not a file:"))
             ELSE [st EXCEPT !.cm = cm, !.paths_ok = FALSE, !.exc = "IndexError"]
    ELSE cubemap_loop(fn_path, v, idx + 1,
             Say([st EXCEPT !.paths_ok = FALSE], "A missing path in the cubemap."))

\* lines 472-489.  st = [parameters, paths_ok, out, exc]
cubemap_entry(fn_path, v, st) ==
    IF Len(v) # CubemapFiles
    THEN [Say(st, "There must be six filenames for the cubemap.")
             EXCEPT !.paths_ok = FALSE, !.parameters = Put(@, "cubemap", <<>>)]
    ELSE LET r == cubemap_loop(fn_path, v, 1,
                      [cm |-> <<>>, paths_ok |-> st.paths_ok, out |-> st.out,
                       exc |-> "none"])
         IN  IF r.exc # "none"
             THEN [st EXCEPT !.paths_ok = r.paths_ok, !.out = r.out, !.exc = r.exc]
             ELSE [st EXCEPT !.paths_ok = r.paths_ok, !.out = r.out,
                             !.parameters = Put(@, "cubemap", r.cm)]

\* path_entry storing the value of the file as it is, not resolved
path_entry_unresolved(fn_path, k, v, st) ==
    IF v # <<>>
    THEN LET p == Path(v)
             st1 == [st EXCEPT !.parameters = Put(@, k, p)]
         IN  IF ~(is_file(p) \/ is_dir(p))
             THEN Say([st1 EXCEPT !.paths_ok = FALSE], "Not a file or path:")
             ELSE st1
    ELSE Say([st EXCEPT !.paths_ok = FALSE], "No path for the key")

\* lines 491-498
path_entry(fn_path, k, v, st) ==
    IF v # <<>>
    THEN LET p == join(parent(fn_path), v)
             st1 == [st EXCEPT !.parameters = Put(@, k, p)]
         IN  IF ~(is_file(p) \/ is_dir(p))
             THEN Say([st1 EXCEPT !.paths_ok = FALSE], "Not a file or path:")
             ELSE st1
    ELSE Say([st EXCEPT !.paths_ok = FALSE], "No path for the key")

\* lines 467-498: the loop over the items of the parameter file
RECURSIVE items_loop(_, _, _, _)
items_loop(fn_path, json_data, i, st) ==
    IF i > Len(KeyOrder) \/ st.exc # "none" THEN st
    ELSE LET k == KeyOrder[i]
         IN  IF k \notin DOMAIN json_data THEN items_loop(fn_path, json_data, i + 1, st)
             ELSE IF k \in allowed_keys_no_paths
             THEN items_loop(fn_path, json_data, i + 1,
                      [st EXCEPT !.parameters = Put(@, k, json_data[k])])
             ELSE IF k \in allowed_keys_paths
             THEN items_loop(fn_path, json_data, i + 1,
                      IF k = "cubemap" THEN cubemap_entry(fn_path, json_data[k], st)
                      ELSE path_entry(fn_path, k, json_data[k], st))
             ELSE items_loop(fn_path, json_data, i + 1, st)

\* set_surface using the surface name only when the file names no object
set_surface_json_first(params, surface_name) ==
    IF ("object" \in DOMAIN params /\ params["object"] = <<>>)
       \/ "object" \notin DOMAIN params
    THEN Put(params, "object", IF surface_name # <<>> THEN surface_name ELSE N_Boy)
    ELSE params

\* lines 500-504
set_surface(params, surface_name) ==
    LET p1 == IF ("object" \in DOMAIN params /\ params["object"] = <<>>)
                  \/ "object" \notin DOMAIN params
              THEN Put(params, "object", N_Boy) ELSE params
    IN  IF surface_name # <<>> THEN Put(p1, "object", surface_name) ELSE p1

EmptyDict == [k \in {} |-> <<>>]
NoLocals == [k \in {} |-> <<>>]

\* get_parameters(fn_path, surface_name), given the content of the file and what
\* was printed before: [parameters, paths_ok, out, exc]
get_parameters(fn_path, surface_name, json_data, printed) ==
    IF ~is_file(fn_path)
    THEN [parameters |-> EmptyDict, paths_ok |-> FALSE, out |-> printed,
          exc |-> "FileNotFoundError"]
    ELSE LET st == items_loop(fn_path, json_data, 1,
                       [parameters |-> EmptyDict, paths_ok |-> TRUE, out |-> printed,
                        exc |-> "none"])
         IN  IF st.exc # "none" THEN st
             ELSE [st EXCEPT !.parameters = set_surface(@, surface_name)]

\* bool(p) of a Path object: pathlib defines neither __bool__ nor __len__
path_bool(p) == TRUE

\* check_for_missing_textures: [have_textures, out]
RECURSIVE missing_loop(_, _, _)
missing_loop(params, wanted, st) ==
    IF wanted = <<>> THEN st
    ELSE IF Head(wanted) \notin DOMAIN params
    THEN missing_loop(params, Tail(wanted),
             [have_textures |-> FALSE, out |-> Append(st.out, "Missing texture:")])
    ELSE IF ~path_bool(params[Head(wanted)])
    THEN missing_loop(params, Tail(wanted),
             [have_textures |-> FALSE, out |-> Append(st.out, "No texture path for:")])
    ELSE missing_loop(params, Tail(wanted), st)

check_for_missing_textures(params, wanted, printed) ==
    missing_loop(params, wanted, [have_textures |-> TRUE, out |-> printed])

wanted_textures == <<"albedo", "normal", "material", "emissive">>

-----------------------------------------------------------------------------
(* The texture readers.  A texture is [kind, srcs, input]: the files it    *)
(* reads and, for a converter, the texture it converts.                    *)

None  == [kind |-> "None", srcs |-> <<>>, input |-> "none"]
Unset == [kind |-> "unset", srcs |-> <<>>, input |-> "none"]
Texture(p) == [kind |-> "vtkTexture", srcs |-> <<p>>, input |-> "none"]

\* vtkHDRReader.GetFileExtensions()
hdr_extensions == <<".", "h", "d", "r", " ", ".", "p", "i", "c">>

CanReadFile(p) == absolute(p) \in HdrReadable

\* equirectangular_file_to_texture: [texture, out]
equirectangular_file_to_texture(fn_path, printed) ==
    LET sfx == lower(suffix(fn_path))
    IN  IF sfx \in {S_jpeg, S_jpg, S_png}
        THEN [texture |-> Texture(fn_path), out |-> printed]
        ELSE IF ~CanReadFile(fn_path)
        THEN [texture |-> None, out |-> Append(printed, "CanReadFile failed for ")]
        ELSE IF ~str_in(sfx, hdr_extensions)
        THEN [texture |-> None,
              out |-> Append(printed, "Unable to read this file extension: ")]
        ELSE [texture |-> Texture(fn_path), out |-> printed]

\* equirectangular_file_to_cubemap: [texture, out]
equirectangular_file_to_cubemap(fn_path, printed) ==
    LET r == equirectangular_file_to_texture(fn_path, printed)
    IN  [texture |-> [kind |-> "vtkEquirectangularToCubeMapTexture", srcs |-> <<fn_path>>,
                      input |-> r.texture.kind],
         out |-> r.out]

read_cubemap(cubemap) == [kind |-> "cubemap", srcs |-> cubemap, input |-> "none"]

valid_extensions ==
    {S_jpg, S_png, <<".", "b", "m", "p">>, <<".", "t", "i", "f", "f">>,
     <<".", "p", "n", "m">>, <<".", "p", "g", "m">>, <<".", "p", "p", "m">>}

\* read_texture: [texture, out]
read_texture(image_path, printed) ==
    IF lower(suffix(image_path)) \notin valid_extensions
    THEN [texture |-> None,
          out |-> Append(printed, "Unable to read the texture file (wrong extension):")]
    ELSE [texture |-> Texture(image_path), out |-> printed]

-----------------------------------------------------------------------------
(* PrintCallback *)

NoCallback == [made |-> FALSE, has_path |-> FALSE, path |-> NoPath, suffix |-> <<>>]

valid_suffixes == {S_jpeg, S_jpg, S_png}

\* print_ext without the lower-casing of the suffix
print_ext_no_lower(pth) ==
    LET ext == IF suffix(pth) # <<>> THEN suffix(pth) ELSE S_png
    IN  IF ext \notin valid_suffixes THEN S_png ELSE ext

\* lines 1048-1053
print_ext(pth) ==
    LET ext == IF suffix(pth) # <<>> THEN lower(suffix(pth)) ELSE S_png
    IN  IF ext \notin valid_suffixes THEN S_png ELSE ext

\* PrintCallback.__init__: [cb, out, exc]
PrintCallback_init(fname, printed) ==
    IF fname = <<>>
    THEN [cb |-> [NoCallback EXCEPT !.made = TRUE],
          out |-> Append(printed, "A file name is required."), exc |-> "none"]
    ELSE LET pth == absolute(Path(fname))
             ext == print_ext(pth)
         IN  IF with_suffix_raises(pth)
             THEN [cb |-> NoCallback, out |-> printed, exc |-> "ValueError"]
             ELSE [cb |-> [made |-> TRUE, has_path |-> TRUE,
                           path |-> with_suffix(pth, ext), suffix |-> ext],
                   out |-> printed, exc |-> "none"]

\* lines 1073-1076
writer_of(sfx) == IF sfx \in {S_jpeg, S_jpg} THEN "vtkJPEGWriter" ELSE "vtkPNGWriter"

\* PrintCallback.__call__ without the test of the key code
PrintCallback_call_any_key(cb, key, files, printed) ==
    IF ~cb.has_path
    THEN [written |-> files, out |-> Append(printed, "A file name is required.")]
    ELSE [written |-> Append(files, [path |-> cb.path, writer |-> writer_of(cb.suffix)]),
          out |-> Append(printed, "Screenshot saved to:")]

\* PrintCallback.__call__: [written, out]
PrintCallback_call(cb, key, files, printed) ==
    IF ~cb.has_path
    THEN [written |-> files, out |-> Append(printed, "A file name is required.")]
    ELSE IF key = "k"
    THEN [written |-> Append(files, [path |-> cb.path, writer |-> writer_of(cb.suffix)]),
          out |-> Append(printed, "Screenshot saved to:")]
    ELSE [written |-> files, out |-> printed]

-----------------------------------------------------------------------------
(* The sliders and their callbacks.  The classes SliderProperties and      *)
(* SliderCallback..., and make_slider_widget, are in both                  *)
(* PBR_Skybox_Texturing.py and PhysicallyBasedRendering.py; the callbacks  *)
(* of the two files are the same line for line.  A value is written in     *)
(* tenths: 3 stands for 0.3.  A slider widget is [minimum, maximum, value, *)
(* title, observer]; props holds the last value each setter of the tone    *)
(* mapping pass and of the actor's property was called with.               *)

NoSliders == [s \in {} |-> <<>>]
NoProps == [p \in {} |-> 0]

\* class SliderProperties of PBR_Skybox_Texturing.py
SliderProperties ==
    [minimum_value |-> 0, maximum_value |-> 10, initial_value |-> 0, title |-> "None"]

\* class SliderProperties of PhysicallyBasedRendering.py
Pbr_SliderProperties ==
    [minimum_value |-> 0, maximum_value |-> 10, initial_value |-> 10, title |-> "None"]

\* make_slider_widget without its SetValue: the value stays at 0
make_slider_widget_no_set_value(properties) ==
    [minimum |-> properties.minimum_value, maximum |-> properties.maximum_value,
     value |-> 0, title |-> properties.title, observer |-> "none"]

\* make_slider_widget: SetMinimumValue, SetMaximumValue, SetValue, SetTitleText
make_slider_widget(properties) ==
    [minimum |-> properties.minimum_value, maximum |-> properties.maximum_value,
     value |-> properties.initial_value, title |-> properties.title,
     observer |-> "none"]

\* slider_widget.AddObserver(vtkCommand.InteractionEvent, callback)
AddObserver(slider_widget, callback) == [slider_widget EXCEPT !.observer = callback]

\* SliderCallbackExposure.__call__
SliderCallbackExposure(caller, p) ==
    LET value == caller.value IN Put(p, "exposure", value)

\* SliderCallbackMetallic.__call__
SliderCallbackMetallic(caller, p) ==
    LET value == caller.value IN Put(p, "metallic", value)

\* SliderCallbackRoughness.__call__ calling the setter of the callback above it
SliderCallbackRoughness_SetMetallic(caller, p) ==
    LET value == caller.value IN Put(p, "metallic", value)

\* SliderCallbackRoughness.__call__
SliderCallbackRoughness(caller, p) ==
    LET value == caller.value IN Put(p, "roughness", value)

\* SliderCallbackOcclusionStrength.__call__
SliderCallbackOcclusionStrength(caller, p) ==
    LET value == caller.value IN Put(p, "occlusion_strength", value)

\* SliderCallbackNormalScale.__call__
SliderCallbackNormalScale(caller, p) ==
    LET value == caller.value IN Put(p, "normal_scale", value)

\* the InteractionEvent of a slider widget: its observer is called with the
\* widget as caller
InteractionEvent(caller, p) ==
    CASE caller.observer = "SliderCallbackExposure" -> SliderCallbackExposure(caller, p)
      [] caller.observer = "SliderCallbackMetallic" -> SliderCallbackMetallic(caller, p)
      [] caller.observer = "SliderCallbackRoughness" -> SliderCallbackRoughness(caller, p)
      [] caller.observer = "SliderCallbackOcclusionStrength" ->
            SliderCallbackOcclusionStrength(caller, p)
      [] caller.observer = "SliderCallbackNormalScale" ->
            SliderCallbackNormalScale(caller, p)
      [] OTHER -> p

\* PBR_Skybox_Texturing main, lines 244-253
coefficients ==
    [diffuse |-> 10, roughness |-> 3, metallic |-> 0, occlusion_strength |-> 10,
     normal_scale |-> 10]

\* PBR_Skybox_Texturing main, lines 284-295: the setters called on the property
\* of the actor
actor_properties(p, c) ==
    LET p1 == Put(p, "diffuse", c.diffuse)
        p2 == Put(p1, "roughness", c.roughness)
        p3 == Put(p2, "metallic", c.metallic)
        p4 == Put(p3, "occlusion_strength", c.occlusion_strength)
    IN  Put(p4, "normal_scale", c.normal_scale)

\* lines 313-391 with every slider reading the one SliderProperties object as
\* main leaves it at the end
make_sliders_shared(c) ==
    LET sw_p == [SliderProperties EXCEPT !.initial_value = c.normal_scale,
                                         !.maximum_value = 50, !.title = "Normal"]
    IN  [sw_exposure |-> AddObserver(make_slider_widget(sw_p), "SliderCallbackExposure"),
         sw_metallic |-> AddObserver(make_slider_widget(sw_p), "SliderCallbackMetallic"),
         sw_roughnesss |-> AddObserver(make_slider_widget(sw_p), "SliderCallbackRoughness"),
         sw_occlusion_strength |->
             AddObserver(make_slider_widget(sw_p), "SliderCallbackOcclusionStrength"),
         sw_normal |-> AddObserver(make_slider_widget(sw_p), "SliderCallbackNormalScale")]

\* PBR_Skybox_Texturing main, lines 313-391: the one SliderProperties object is
\* changed before each slider is made from it
make_sliders(c) ==
    LET sw_p1 == [SliderProperties EXCEPT !.initial_value = 10, !.maximum_value = 50,
                                          !.title = "Exposure"]
        sw_p2 == [sw_p1 EXCEPT !.initial_value = c.metallic, !.maximum_value = 10,
                               !.title = "Metallicity"]
        sw_p3 == [sw_p2 EXCEPT !.initial_value = c.roughness, !.title = "Roughness"]
        sw_p4 == [sw_p3 EXCEPT !.initial_value = c.occlusion_strength,
                               !.maximum_value = 10, !.title = "Occlusion"]
        sw_p5 == [sw_p4 EXCEPT !.initial_value = c.normal_scale, !.maximum_value = 50,
                               !.title = "Normal"]
    IN  [sw_exposure |-> AddObserver(make_slider_widget(sw_p1), "SliderCallbackExposure"),
         sw_metallic |-> AddObserver(make_slider_widget(sw_p2), "SliderCallbackMetallic"),
         sw_roughnesss |->
             AddObserver(make_slider_widget(sw_p3), "SliderCallbackRoughness"),
         sw_occlusion_strength |->
             AddObserver(make_slider_widget(sw_p4), "SliderCallbackOcclusionStrength"),
         sw_normal |->
             AddObserver(make_slider_widget(sw_p5), "SliderCallbackNormalScale")]

\* PhysicallyBasedRendering main, lines 103-107
Pbr_coefficients ==
    [metallic |-> 10, roughness |-> 8, occlusion_strength |-> 100, normal_scale |-> 100]

\* PhysicallyBasedRendering main, lines 164-177
Pbr_actor_properties(p, c) ==
    LET p1 == Put(p, "metallic", c.metallic)
        p2 == Put(p1, "roughness", c.roughness)
        p3 == Put(p2, "occlusion_strength", c.occlusion_strength)
    IN  Put(p3, "normal_scale", c.normal_scale)

\* PhysicallyBasedRendering main, lines 112-151
Pbr_make_sliders(c) ==
    LET slw_p1 == [Pbr_SliderProperties EXCEPT !.initial_value = c.metallic,
                                               !.title = "Metallicity"]
        slw_p2 == [slw_p1 EXCEPT !.initial_value = c.roughness, !.title = "Roughness"]
        slw_p3 == [slw_p2 EXCEPT !.initial_value = c.occlusion_strength,
                                 !.maximum_value = c.occlusion_strength,
                                 !.title = "Occlusion"]
        slw_p4 == [slw_p3 EXCEPT !.initial_value = c.normal_scale,
                                 !.maximum_value = c.normal_scale, !.title = "Normal"]
    IN  [slider_widget_metallic |-> make_slider_widget(slw_p1),
         slider_widget_roughness |-> make_slider_widget(slw_p2),
         slider_widget_occlusion_strength |-> make_slider_widget(slw_p3),
         slider_widget_normal |-> make_slider_widget(slw_p4)]

\* PhysicallyBasedRendering main, lines 196-200
Pbr_add_observers(sw) ==
    [sw EXCEPT
        !.slider_widget_metallic = AddObserver(@, "SliderCallbackMetallic"),
        !.slider_widget_roughness = AddObserver(@, "SliderCallbackRoughness"),
        !.slider_widget_occlusion_strength =
            AddObserver(@, "SliderCallbackOcclusionStrength"),
        !.slider_widget_normal = AddObserver(@, "SliderCallbackNormalScale")]

\* the values a drag can leave a slider at: the slider representation keeps
\* its value between its minimum and its maximum
SliderValues(w) ==
    {w.minimum + (i * (w.maximum - w.minimum)) \div SliderSteps : i \in 0..SliderSteps}

-----------------------------------------------------------------------------
(* main *)

N_boy == <<"b", "o", "y">>
N_mobius == <<"m", "o", "b", "i", "u", "s">>
N_randomhills == <<"r", "a", "n", "d", "o", "m", "h", "i", "l", "l", "s">>
N_torus == <<"t", "o", "r", "u", "s">>
N_sphere == <<"s", "p", "h", "e", "r", "e">>
N_clippedsphere == <<"c", "l", "i", "p", "p", "e", "d", "s", "p", "h", "e", "r", "e">>
N_cube == <<"c", "u", "b", "e">>
N_clippedcube == <<"c", "l", "i", "p", "p", "e", "d", "c", "u", "b", "e">>

available_surfaces == {N_boy, N_mobius, N_randomhills, N_torus, N_sphere,
                       N_clippedsphere, N_cube, N_clippedcube}

\* lines 168-183: the generator function main calls
generator(s) ==
    CASE s = N_mobius -> "get_mobius"
      [] s = N_randomhills -> "get_random_hills"
      [] s = N_torus -> "get_torus"
      [] s = N_sphere -> "get_sphere"
      [] s = N_clippedsphere -> "get_clipped_sphere"
      [] s = N_cube -> "get_cube"
      [] s = N_clippedcube -> "get_clipped_cube"
      [] OTHER -> "get_boy"

\* the string literal of line 138
hdr_pic == <<".", "h", "d", "r", " ", ".", "p", "i", "c">>

\* sys.argv[0]
ScriptName == <<"P", "B", "R", ".", "p", "y">>

EnvInit == [use_cubemap |-> FALSE, cube_map |-> Unset, env_texture |-> Unset,
            has_env_texture |-> FALSE, is_hdr |-> FALSE, has_cube_map |-> FALSE,
            gamma_correct |-> FALSE]

TexInit == [base_color |-> Unset, normal |-> Unset, material |-> Unset,
            emissive |-> Unset, srgb |-> {}]

SceneInit == [built |-> FALSE, source |-> "none", environment |-> Unset,
              spherical_harmonics |-> FALSE,
              base_color |-> Unset, orm |-> Unset, emissive |-> Unset, normal |-> Unset,
              skybox |-> FALSE, skybox_texture |-> Unset, skybox_gamma |-> FALSE,
              rendered |-> FALSE]

InitOf(inp) ==
    /\ vtk_version = inp["$vtk"].val
    /\ argv = ArgvOf(inp)
    /\ json = JsonOf(inp)
    /\ pc = "start"
    /\ out = <<>>
    /\ exc = "none"
    /\ paths_ok = FALSE
    /\ parameters = EmptyDict
    /\ env = EnvInit
    /\ tex = TexInit
    /\ surface = <<>>
    /\ scene = SceneInit
    /\ file_name = <<>>
    /\ print_cb = NoCallback
    /\ keys = <<>>
    /\ written = <<>>
    /\ sliders = NoSliders
    /\ props = NoProps
    /\ events = <<>>
    /\ locals = NoLocals

Init ==
    \E D \in Deviations : \E f \in AltChoices(D) : \E c \in CubemapChoices(D) :
        InitOf(InputOf(D, f, c))

\* lines 104-106
fn_path_of(fn) ==
    IF suffix(Path(fn)) = <<>> THEN with_suffix(Path(fn), S_json) ELSE Path(fn)

\* lines 98-108: the version check, the command line, the test of the file
MainStart ==
    /\ pc = "start"
    /\ IF ~vtk_version_ok(vtk_version, 9, 0, 0)
       THEN /\ out' = Append(out, "You need VTK version 9.0 or greater to run this program.")
            /\ pc' = "returned"
       ELSE /\ out' = IF ~is_file(fn_path_of(argv.fn))
                      THEN Append(out, "Unable to find: ") ELSE out
            /\ pc' = "get_parameters"
    /\ UNCHANGED <<vtk_version, argv, json, exc, paths_ok, parameters, env, tex,
                   surface, scene, file_name, print_cb, keys, written>>
    /\ UNCHANGED <<sliders, props, events, locals>>

\* lines 110-111 without the return
after_get_parameters_no_return(ok) == "check_textures"

\* lines 110-111: main returns when paths_ok is False
after_get_parameters(ok) == IF ok THEN "check_textures" ELSE "returned"

\* lines 109-114
MainGetParameters ==
    /\ pc = "get_parameters"
    /\ \E r \in {get_parameters(fn_path_of(argv.fn), argv.surface, json, out)} :
           /\ out' = IF r.exc = "none" /\ r.paths_ok
                     THEN Append(r.out, "<parameters>") ELSE r.out
           /\ exc' = r.exc
           /\ IF r.exc # "none"
              THEN /\ pc' = "raised"
                   /\ UNCHANGED <<paths_ok, parameters>>
              ELSE /\ paths_ok' = r.paths_ok
                   /\ parameters' = r.parameters
                   /\ pc' = after_get_parameters(r.paths_ok)
    /\ UNCHANGED <<vtk_version, argv, json, env, tex, surface, scene, file_name,
                   print_cb, keys, written>>
    /\ UNCHANGED <<sliders, props, events, locals>>

\* lines 116-117
MainCheckTextures ==
    /\ pc = "check_textures"
    /\ LET r == check_for_missing_textures(parameters, wanted_textures, out)
       IN  /\ out' = r.out
           /\ pc' = IF r.have_textures THEN "choose_env" ELSE "returned"
    /\ UNCHANGED <<vtk_version, argv, json, exc, paths_ok, parameters, env, tex,
                   surface, scene, file_name, print_cb, keys, written>>
    /\ UNCHANGED <<sliders, props, events, locals>>

\* lines 149-153 without the return of line 153
no_environment_goes_on(e, printed) ==
    [env |-> e, out |-> Append(printed, "An environment texture is required,"),
     returns |-> FALSE]

\* lines 149-153: no environment is given, main prints and returns
no_environment(e, printed) ==
    [env |-> e, out |-> Append(printed, "An environment texture is required,"),
     returns |-> TRUE]

\* lines 126-153, once parameters['skybox'] has been read: [env, out, returns]
choose_env(params, flag, printed) ==
    LET use_cubemap == IF ~params["skybox"] THEN FALSE ELSE flag
        e0 == [EnvInit EXCEPT !.use_cubemap = use_cubemap, !.cube_map = None,
                              !.env_texture = None]
    IN  IF use_cubemap /\ "cubemap" \in DOMAIN params
        THEN [env |-> [e0 EXCEPT !.cube_map = read_cubemap(params["cubemap"]),
                                 !.has_cube_map = TRUE],
              out |-> Append(printed,
                        "Using the cubemap files to generate the environment texture."),
              returns |-> FALSE]
        ELSE IF "equirectangular" \in DOMAIN params /\ path_bool(params["equirectangular"])
        THEN LET p == params["equirectangular"]
                 t == equirectangular_file_to_texture(p, Append(printed,
                        "Using the equirectangular file to generate the environment texture."))
                 hdr == str_in(lower(suffix(p)), hdr_pic)
                 c == equirectangular_file_to_cubemap(p, t.out)
                 e1 == [e0 EXCEPT !.env_texture = t.texture, !.has_env_texture = TRUE,
                                  !.gamma_correct = hdr, !.is_hdr = hdr]
             IN  IF params["skybox"]
                 THEN [env |-> [e1 EXCEPT !.cube_map = c.texture, !.has_cube_map = TRUE],
                       out |-> c.out, returns |-> FALSE]
                 ELSE [env |-> e1, out |-> t.out, returns |-> FALSE]
        ELSE IF "cubemap" \in DOMAIN params /\ params["cubemap"] # <<>>
        THEN [env |-> [e0 EXCEPT !.cube_map = read_cubemap(params["cubemap"]),
                                 !.has_cube_map = TRUE],
              out |-> Append(printed,
                        "Using the cubemap files to generate the environment texture."),
              returns |-> FALSE]
        ELSE no_environment(e0, printed)

\* lines 119-153
MainChooseEnv ==
    /\ pc = "choose_env"
    /\ IF "skybox" \notin DOMAIN parameters
       THEN /\ exc' = "KeyError"
            /\ pc' = "raised"
            /\ env' = [EnvInit EXCEPT !.cube_map = None, !.env_texture = None]
            /\ out' = out
       ELSE LET r == choose_env(parameters, argv.use_cubemap, out)
            IN  /\ env' = r.env
                /\ out' = r.out
                /\ pc' = IF r.returns THEN "returned" ELSE "read_textures"
                /\ exc' = exc
    /\ UNCHANGED <<vtk_version, argv, json, paths_ok, parameters, tex, surface, scene,
                   file_name, print_cb, keys, written>>
    /\ UNCHANGED <<sliders, props, events, locals>>

\* lines 155-161: [tex, out, exc].  A method call on None raises AttributeError.
read_textures(params, printed) ==
    LET a == read_texture(params["albedo"], printed)
        n == read_texture(params["normal"], a.out)
        m == read_texture(params["material"], n.out)
        e == read_texture(params["emissive"], m.out)
    IN  IF a.texture = None
        THEN [tex |-> [TexInit EXCEPT !.base_color = a.texture], out |-> a.out,
              exc |-> "AttributeError"]
        ELSE IF e.texture = None
        THEN [tex |-> [base_color |-> a.texture, normal |-> n.texture,
                       material |-> m.texture, emissive |-> e.texture,
                       srgb |-> {"base_color"}],
              out |-> e.out, exc |-> "AttributeError"]
        ELSE [tex |-> [base_color |-> a.texture, normal |-> n.texture,
                       material |-> m.texture, emissive |-> e.texture,
                       srgb |-> {"base_color", "emissive"}],
              out |-> e.out, exc |-> "none"]

MainReadTextures ==
    /\ pc = "read_textures"
    /\ LET r == read_textures(parameters, out)
       IN  /\ tex' = r.tex
           /\ out' = r.out
           /\ exc' = r.exc
           /\ pc' = IF r.exc # "none" THEN "raised" ELSE "get_surface"
    /\ UNCHANGED <<vtk_version, argv, json, paths_ok, parameters, env, surface, scene,
                   file_name, print_cb, keys, written>>
    /\ UNCHANGED <<sliders, props, events, locals>>

\* lines 164-167 without the lower() of line 164
surface_of_no_lower(object) ==
    IF object \notin available_surfaces THEN N_boy ELSE object

\* lines 164-167
surface_of(object) ==
    IF lower(object) \notin available_surfaces THEN N_boy ELSE lower(object)

\* lines 163-183
MainGetSurface ==
    /\ pc = "get_surface"
    /\ surface' = surface_of(parameters["object"])
    /\ scene' = [scene EXCEPT !.source = generator(surface')]
    /\ pc' = "build_scene"
    /\ UNCHANGED <<vtk_version, argv, json, out, exc, paths_ok, parameters, env, tex,
                   file_name, print_cb, keys, written>>
    /\ UNCHANGED <<sliders, props, events, locals>>

\* lines 193-199
with_defaults(params) ==
    LET p1 == IF "bkgcolor" \notin DOMAIN params
              THEN Put(params, "bkgcolor", "BkgColor") ELSE params
        p2 == IF "objcolor" \notin DOMAIN p1 THEN Put(p1, "objcolor", "White") ELSE p1
    IN  IF "skybox" \notin DOMAIN p2 THEN Put(p2, "skybox", FALSE) ELSE p2

\* lines 259-305: what the renderer and the actor are given
build_scene(sc, e, t) ==
    [sc EXCEPT !.built = TRUE,
               !.spherical_harmonics = e.has_env_texture /\ e.is_hdr,
               !.environment = IF e.has_env_texture THEN e.env_texture ELSE e.cube_map,
               !.base_color = t.base_color,
               !.orm = t.material,
               !.emissive = t.emissive,
               !.normal = t.normal,
               !.skybox = e.has_cube_map,
               !.skybox_texture = IF e.has_cube_map THEN e.cube_map ELSE Unset,
               !.skybox_gamma = e.has_cube_map /\ e.gamma_correct]

\* lines 185-305
MainBuildScene ==
    /\ pc = "build_scene"
    /\ parameters' = with_defaults(parameters)
    /\ scene' = build_scene(scene, env, tex)
    /\ props' = actor_properties(props, coefficients)
    /\ pc' = "show"
    /\ UNCHANGED <<vtk_version, argv, json, out, exc, paths_ok, env, tex, surface,
                   file_name, print_cb, keys, written>>
    /\ UNCHANGED <<sliders, events, locals>>

\* lines 307-422: the sliders are made and their callbacks registered, the
\* window is rendered, the print callback is made and registered, the event
\* loop starts
MainShow ==
    /\ pc = "show"
    /\ file_name' = stem(Path(ScriptName))
    /\ LET r == PrintCallback_init(file_name', out)
       IN  /\ print_cb' = r.cb
           /\ out' = r.out
           /\ exc' = r.exc
           /\ pc' = IF r.exc # "none" THEN "raised" ELSE "interacting"
    /\ scene' = [scene EXCEPT !.rendered = TRUE]
    /\ sliders' = make_sliders(coefficients)
    /\ UNCHANGED <<vtk_version, argv, json, paths_ok, parameters, env, tex, surface,
                   keys, written>>
    /\ UNCHANGED <<props, events, locals>>

\* the key codes of the key-press events
KeyCodes == {"k", "K", "s"}

\* a KeyPressEvent of the interactor: PrintCallback.__call__
KeyPress ==
    /\ pc = "interacting"
    /\ Len(keys) < MaxKeys
    /\ \E key \in KeyCodes :
          LET r == PrintCallback_call(print_cb, key, written, out)
          IN  /\ keys' = Append(keys, key)
              /\ written' = r.written
              /\ out' = r.out
    /\ UNCHANGED <<vtk_version, argv, json, pc, exc, paths_ok, parameters, env, tex,
                   surface, scene, file_name, print_cb>>
    /\ UNCHANGED <<sliders, props, events, locals>>

\* the window is closed: interactor.Start() returns and main ends
Exit ==
    /\ pc = "interacting"
    /\ pc' = "exited"
    /\ UNCHANGED <<vtk_version, argv, json, out, exc, paths_ok, parameters, env, tex,
                   surface, scene, file_name, print_cb, keys, written>>
    /\ UNCHANGED <<sliders, props, events, locals>>

Next ==
    \/ MainStart
    \/ MainGetParameters
    \/ MainCheckTextures
    \/ MainChooseEnv
    \/ MainReadTextures
    \/ MainGetSurface
    \/ MainBuildScene
    \/ MainShow
    \/ KeyPress
    \/ Exit

Spec == Init /\ [][Next]_vars

-----------------------------------------------------------------------------
(* PrintCallback on its own: any file name, then the key-press events *)

NameDirs  == {<<>>, <<"s", "/">>, <<"/">>, <<"/", "s", ".", "d", "/">>}
NameStems == {<<>>, <<"a">>, <<"a", ".", "b">>, <<".">>, <<".", "a">>}
NameExts  == {<<>>, S_png, S_jpg, S_jpeg, <<".", "P", "N", "G">>, <<".", "J", "P", "G">>,
              <<".", "J", "p", "e", "g">>, <<".", "t", "x", "t">>, <<".">>,
              <<".", "p", "n", "g", "x">>, <<".", "j", "p">>, <<"/">>}

FileNames == {d \o n \o e : d \in NameDirs, n \in NameStems, e \in NameExts}

InitPrint ==
    /\ \E f \in FileNames : file_name = f
    /\ vtk_version = Base("$vtk").val
    /\ argv = ArgvOf([k \in InputKeys |-> Base(k)])
    /\ json = JsonOf([k \in InputKeys |-> Base(k)])
    /\ pc = "print_callback"
    /\ out = <<>>
    /\ exc = "none"
    /\ paths_ok = FALSE
    /\ parameters = EmptyDict
    /\ env = EnvInit
    /\ tex = TexInit
    /\ surface = <<>>
    /\ scene = SceneInit
    /\ print_cb = NoCallback
    /\ keys = <<>>
    /\ written = <<>>
    /\ sliders = NoSliders
    /\ props = NoProps
    /\ events = <<>>
    /\ locals = NoLocals

\* PrintCallback(interactor, file_name, 1, False) and interactor.AddObserver
PrintNew ==
    /\ pc = "print_callback"
    /\ LET r == PrintCallback_init(file_name, out)
       IN  /\ print_cb' = r.cb
           /\ out' = r.out
           /\ exc' = r.exc
           /\ pc' = IF r.exc # "none" THEN "raised" ELSE "interacting"
    /\ UNCHANGED <<vtk_version, argv, json, paths_ok, parameters, env, tex, surface,
                   scene, file_name, keys, written>>
    /\ UNCHANGED <<sliders, props, events, locals>>

NextPrint ==
    \/ PrintNew
    \/ KeyPress
    \/ Exit

SpecPrint == InitPrint /\ [][NextPrint]_vars

-----------------------------------------------------------------------------
(* Properties of PBR_Skybox_Texturing main *)

Printed(msg) == \E i \in 1..Len(out) : out[i] = msg

VersionOk == vtk_version_ok(vtk_version, 9, 0, 0)
FnPath == fn_path_of(argv.fn)

\* main has called get_parameters and the call has returned
ParametersReturned ==
    /\ pc \notin {"start", "get_parameters"}
    /\ VersionOk
    /\ exc \notin {"FileNotFoundError", "IndexError"}

\* main is past the environment selection of lines 119-153
PastEnvironment ==
    pc \in {"read_textures", "get_surface", "build_scene", "show", "interacting", "exited"}
    \/ (pc = "raised" /\ exc = "AttributeError")

\* main is past the reading of the textures of lines 155-161
PastTextures == pc \in {"get_surface", "build_scene", "show", "interacting", "exited"}

\* C1: when the parameter file named on the command line (with .json appended
\* to a name without suffix) does not exist, main prints a message and returns
\* early: get_parameters is not called on the missing file and no exception
\* leaves main.
C1_MissingFileReturnsEarly ==
    (VersionOk /\ pc # "start" /\ ~is_file(FnPath))
        => (Printed("Unable to find: ") /\ exc = "none"
            /\ pc \in {"get_parameters", "returned"})

\* a texture key whose file exists and has an extension read_texture refuses
BadExtension(k) ==
    /\ k \in DOMAIN parameters
    /\ is_file(parameters[k])
    /\ lower(suffix(parameters[k])) \notin valid_extensions

\* C2: for an existing albedo, normal, material or emissive file whose
\* lower-cased extension is not a valid one, main returns early: no method is
\* called on a texture that is None (which raises AttributeError), none is
\* attached to the actor, and main does not go on.
C2_BadExtensionReturnsEarly ==
    (ParametersReturned /\ \E k \in {"albedo", "normal", "material", "emissive"} :
                                BadExtension(k))
        => /\ exc # "AttributeError"
           /\ ~PastTextures
           /\ None \notin {scene.base_color, scene.orm, scene.emissive, scene.normal}

\* a cubemap list of exactly six non-empty names of existing files
CubemapValid(v) ==
    /\ Len(v) = 6
    /\ \A i \in 1..Len(v) : v[i] # <<>> /\ is_file(join(parent(FnPath), v[i]))

\* C3: for every cubemap list get_parameters returns without raising; it
\* returns paths_ok = True only for six non-empty names of existing files, and
\* otherwise prints a message and returns paths_ok = False, and main returns.
C3_CubemapListHandled ==
    (VersionOk /\ is_file(FnPath) /\ "cubemap" \in DOMAIN json
     /\ pc \notin {"start", "get_parameters"})
        => /\ exc # "IndexError"
           /\ paths_ok => CubemapValid(json["cubemap"])
           /\ ~CubemapValid(json["cubemap"])
                => /\ pc = "returned"
                   /\ \/ Printed("There must be six filenames for the cubemap.")
                      \/ Printed("Not a file:")
                      \/ Printed("A missing path in the cubemap.")

\* C4: when the equirectangular file cannot be read as HDR,
\* equirectangular_file_to_texture returns None and main returns early: None
\* is passed neither to SetEnvironmentTexture nor to the converter's
\* SetInputTexture.
C4_UnreadableHdrReturnsEarly ==
    /\ (env.has_env_texture /\ env.env_texture = None) => pc = "returned"
    /\ env.cube_map.input # "None"
    /\ scene.environment # None

\* a parameter file all of whose path keys name existing files
ValidJson ==
    /\ \A k \in (DOMAIN json \cap allowed_keys_paths) \ {"cubemap"} :
          json[k] # <<>> /\ is_file(join(parent(FnPath), json[k]))
    /\ "cubemap" \in DOMAIN json => CubemapValid(json["cubemap"])

\* the object entry get_parameters leaves: the surface name of the command
\* line, else the JSON value, else Boy
ObjectEntry ==
    IF argv.surface # <<>> THEN argv.surface
    ELSE IF "object" \in DOMAIN json /\ json["object"] # <<>> THEN json["object"]
    ELSE N_Boy

\* the dictionary of C5 without its object entry
DictionaryOf ==
    /\ DOMAIN parameters = (DOMAIN json \cap (allowed_keys_no_paths \cup allowed_keys_paths))
                           \cup {"object"}
    /\ \A k \in (DOMAIN json \cap allowed_keys_no_paths) \ {"object"} :
          parameters[k] = json[k]
    /\ \A k \in (DOMAIN json \cap allowed_keys_paths) \ {"cubemap"} :
          parameters[k] = join(parent(FnPath), json[k])
    /\ "cubemap" \in DOMAIN json =>
          /\ Len(parameters["cubemap"]) = 6
          /\ \A i \in 1..6 :
                parameters["cubemap"][i] = join(parent(FnPath), json["cubemap"][i])

\* C5 as stated: given a valid parameter file, get_parameters returns paths_ok =
\* True and a dictionary holding exactly each JSON key of {object, objcolor,
\* bkgcolor, skybox} with its JSON value, each JSON path key with its value
\* resolved against the parent directory of the file, and an object entry.
C5_DictionaryAsStated ==
    (VersionOk /\ is_file(FnPath) /\ ValidJson /\ pc = "check_textures")
        => /\ paths_ok
           /\ DictionaryOf
           /\ "object" \in DOMAIN json => parameters["object"] = json["object"]

\* C5 amended: given a valid parameter file, get_parameters returns paths_ok =
\* True and a dictionary holding exactly each JSON key of {objcolor, bkgcolor,
\* skybox} with its JSON value, each JSON path key with its value resolved
\* against the parent directory of the file (cubemap as six paths in JSON
\* order), and an object entry that is the surface name of the command line when
\* one is given, else the non-empty JSON value, else Boy.
C5_Dictionary ==
    (pc \in {"check_textures", "returned", "raised"} /\ VersionOk /\ is_file(FnPath)
     /\ ValidJson)
        => /\ paths_ok
           /\ exc \notin {"FileNotFoundError", "IndexError"}
           /\ pc = "check_textures" => (DictionaryOf /\ parameters["object"] = ObjectEntry)

C5_Witness ==
    /\ pc = "check_textures"
    /\ ValidJson
    /\ "title" \in DOMAIN json
    /\ "cubemap" \in DOMAIN json
    /\ "coat" \in DOMAIN json

\* a texture that is absent, empty or names a path that does not exist
MissingTexture(k) ==
    \/ k \notin DOMAIN json
    \/ json[k] = <<>>
    \/ ~(is_file(join(parent(FnPath), json[k])) \/ is_dir(join(parent(FnPath), json[k])))

\* C6: for every parameter file in which one of albedo, normal, material,
\* emissive is absent, empty or names a path that does not exist, main prints a
\* message and returns before any texture is read or any scene object is built.
C6_MissingTextureReported ==
    (VersionOk /\ is_file(FnPath) /\ pc \notin {"start", "get_parameters"}
     /\ \E k \in {"albedo", "normal", "material", "emissive"} : MissingTexture(k))
        => /\ exc = "none"
           /\ pc \in {"check_textures", "returned"}
           /\ pc = "returned" => Len(out) > 0
           /\ tex = TexInit /\ scene = SceneInit

\* C7: get_parameters returns parameters['object'] equal to the surface name of
\* the command line when that is non-empty; when it is empty, the JSON object
\* value if present and non-empty, and Boy otherwise.
C7_SurfaceOverrides ==
    ParametersReturned =>
        /\ "object" \in DOMAIN parameters
        /\ parameters["object"] = ObjectEntry

C7_Witness ==
    /\ ParametersReturned
    /\ argv.surface # <<>>
    /\ "object" \in DOMAIN json
    /\ json["object"] # <<>>
    /\ json["object"] # argv.surface

\* C8: whenever the -c flag is given and the valid JSON has a cubemap entry, the
\* environment texture is built from the six cubemap files by read_cubemap and
\* the equirectangular file is not used, whatever the other entries are.
C8_CubemapFlagOverrides ==
    (PastEnvironment /\ argv.use_cubemap /\ "cubemap" \in DOMAIN parameters)
        => /\ env.cube_map = read_cubemap(parameters["cubemap"])
           /\ ~env.has_env_texture
           /\ env.env_texture = None

-----------------------------------------------------------------------------
(* Properties of PrintCallback, under SpecPrint *)

\* the suffix PrintCallback is to give the screenshot
ExpectedSuffix ==
    LET sfx == lower(suffix(Path(file_name)))
    IN  IF sfx \in {S_jpeg, S_jpg, S_png} THEN sfx ELSE S_png

ExpectedWriter ==
    IF ExpectedSuffix \in {S_jpeg, S_jpg} THEN "vtkJPEGWriter" ELSE "vtkPNGWriter"

SuffixAndWriter ==
    /\ exc = "none"
    /\ print_cb.has_path
    /\ suffix(print_cb.path) \in {S_jpeg, S_jpg, S_png}
    /\ suffix(print_cb.path) = ExpectedSuffix
    /\ \A i \in 1..Len(written) :
          written[i].path = print_cb.path /\ written[i].writer = ExpectedWriter

CountK(ks) == Cardinality({i \in 1..Len(ks) : ks[i] = "k"})

\* C10: for every sequence of key-press events a screenshot is written once for
\* each event with key code k and for no other; another key leaves the files and
\* the callback unchanged; a callback made with an empty file name never writes
\* and prints 'A file name is required.' on every key press.
C10_ScreenshotPerKeyK ==
    print_cb.made =>
        /\ print_cb = PrintCallback_init(file_name, <<>>).cb
        /\ print_cb.has_path =>
              /\ Len(written) = CountK(keys)
              /\ \A i \in 1..Len(written) : written[i].path = print_cb.path
              /\ out = [i \in 1..CountK(keys) |-> "Screenshot saved to:"]
        /\ ~print_cb.has_path =>
              /\ file_name = <<>>
              /\ written = <<>>
              /\ out = [i \in 1..(Len(keys) + 1) |-> "A file name is required."]

C10_Witness ==
    /\ pc = "interacting"
    /\ print_cb.has_path
    /\ keys = <<"k", "K", "k">>
    /\ Len(written) = 2

-----------------------------------------------------------------------------
(* PhysicallyBasedRendering.py: main and the functions it calls *)

\* the state of a run that starts at p with the installed version v, the
\* command line a and the locals l, before main has assigned e, t and sc
InitAt(p, v, a, l, e, t, sc) ==
    /\ vtk_version = v
    /\ argv = a
    /\ json = JsonOf([k \in InputKeys |-> Base(k)])
    /\ pc = p
    /\ out = <<>>
    /\ exc = "none"
    /\ paths_ok = FALSE
    /\ parameters = EmptyDict
    /\ env = e
    /\ tex = t
    /\ surface = <<>>
    /\ scene = sc
    /\ file_name = <<>>
    /\ print_cb = NoCallback
    /\ keys = <<>>
    /\ written = <<>>
    /\ sliders = NoSliders
    /\ props = NoProps
    /\ events = <<>>
    /\ locals = l

Pbr_InputKeys == {"$vtk", "path", "material_fn", "albedo_fn", "normal_fn",
                  "emissive_fn", "surface"}

\* a name in the folder d
Pbr_InD(n) == <<"d", "/">> \o n

Pbr_Base(k) ==
    CASE k = "$vtk" -> <<9, 3, 0>>
      [] k = "path" -> Pbr_Path(N_skybox0)
      [] k = "surface" -> N_Boy
      [] OTHER -> Pbr_InD(TexPng)

Pbr_Alt(k) ==
    CASE k = "$vtk" -> << <<8, 2, 0>>, <<8, 90, 0>>, <<9, 0, 0>> >>
      [] k = "path" ->
            <<Pbr_Path(N_skybox1), Pbr_Path(N_skybox2), Pbr_Path(N_skybox2) \o <<"/">>,
              Pbr_Path(N_other), Pbr_Path(N_gone), <<>>, <<"s">>, Pbr_InD(TexPng)>>
      [] k = "surface" -> <<N_Torus, N_Cube, N_clippedcube, <<>> >>
      [] OTHER ->
            <<Pbr_InD(TexUpper), Pbr_InD(TexTxt), Pbr_InD(TexJpeg), Pbr_InD(TexGone),
              <<>>, <<"d">> >>

\* the most alternatives a key has
Pbr_MaxAlt == Len(Pbr_Alt("path"))

Pbr_Deviations == {S \in SUBSET Pbr_InputKeys : Cardinality(S) <= MaxDeviations}

Pbr_AltChoices(D) ==
    {g \in [D -> 1..Pbr_MaxAlt] : \A k \in D : g[k] <= Len(Pbr_Alt(k))}

Pbr_InputOf(D, g) == [k \in Pbr_InputKeys |-> IF k \in D THEN Pbr_Alt(k)[g[k]] ELSE Pbr_Base(k)]

\* get_program_parameters
Pbr_ArgvOf(inp) ==
    [path |-> inp["path"], material_fn |-> inp["material_fn"],
     albedo_fn |-> inp["albedo_fn"], normal_fn |-> inp["normal_fn"],
     emissive_fn |-> inp["emissive_fn"], surface |-> inp["surface"]]

\* read_cube_map, lines 257-261 and 262-276: [texture, out]
RECURSIVE read_cube_map_loop(_, _, _, _)
read_cube_map_loop(folder_root, file_names, fns, printed) ==
    IF file_names = <<>>
    THEN [texture |-> [kind |-> "cubemap", srcs |-> fns, input |-> "none"],
          out |-> printed]
    ELSE LET fns1 == Append(fns, join(folder_root, Head(file_names)))
         IN  IF ~is_file(fns1[Len(fns1)])
             THEN [texture |-> None,
                   out |-> Append(printed, "Nonexistent texture file:")]
             ELSE read_cube_map_loop(folder_root, Tail(file_names), fns1, printed)

read_cube_map(folder_root, file_names, printed) ==
    read_cube_map_loop(folder_root, file_names, <<>>, printed)

Pbr_valid_extensions ==
    {S_jpg, S_png, <<".", "b", "m", "p">>, <<".", "t", "i", "f", "f">>,
     <<".", "p", "n", "m">>, <<".", "p", "g", "m">>, <<".", "p", "p", "m">>}

\* get_texture: [texture, out]
get_texture(image_path, printed) ==
    LET path == Path(image_path)
    IN  IF ~is_file(path)
        THEN [texture |-> None, out |-> Append(printed, "Nonexistent texture file:")]
        ELSE IF lower(suffix(path)) \notin Pbr_valid_extensions
        THEN [texture |-> None,
              out |-> Append(printed,
                        "Unable to read the texture file (wrong extension):")]
        ELSE [texture |-> Texture(path), out |-> printed]

Pbr_available_surfaces == {N_boy, N_mobius, N_randomhills, N_torus, N_sphere, N_cube}

\* lines 75-86: the generator function main calls
Pbr_generator(s) ==
    CASE s = N_mobius -> "get_mobius"
      [] s = N_randomhills -> "get_random_hills"
      [] s = N_torus -> "get_torus"
      [] s = N_sphere -> "get_sphere"
      [] s = N_cube -> "get_cube"
      [] OTHER -> "get_boy"

Pbr_EnvInit == [cubemap |-> Unset, skybox |-> Unset]

Pbr_TexInit == [material |-> Unset, albedo |-> Unset, normal |-> Unset,
                emissive |-> Unset, srgb |-> {}]

Pbr_SceneInit == [built |-> FALSE, source |-> "none", environment |-> Unset,
                  environment_setter |-> "none", spherical_harmonics |-> FALSE,
                  base_color |-> Unset, orm |-> Unset, emissive |-> Unset,
                  normal |-> Unset, skybox |-> FALSE, skybox_texture |-> Unset,
                  rendered |-> FALSE]

InitPbr ==
    \E D \in Pbr_Deviations : \E g \in Pbr_AltChoices(D) :
        LET inp == Pbr_InputOf(D, g)
        IN  InitAt("pbr_start", inp["$vtk"], Pbr_ArgvOf(inp),
                   [script |-> "PhysicallyBasedRendering"],
                   Pbr_EnvInit, Pbr_TexInit, Pbr_SceneInit)

\* lines 31-38: the version check, the command line, the test of the folder
PbrStart ==
    /\ pc = "pbr_start"
    /\ IF ~vtk_version_ok(vtk_version, 8, 90, 0)
       THEN /\ out' = Append(out, "You need VTK version 8.90 or greater to run this program.")
            /\ pc' = "returned"
       ELSE IF ~is_dir(Path(argv.path))
       THEN /\ out' = Append(out, "This path does not exist:")
            /\ pc' = "returned"
       ELSE /\ out' = out
            /\ pc' = "pbr_cubemap"
    /\ UNCHANGED <<vtk_version, argv, json, exc, paths_ok, parameters, env, tex,
                   surface, scene, file_name, print_cb, keys, written>>
    /\ UNCHANGED <<sliders, props, events, locals>>

\* lines 53-60: [env, out, exc].  A key that skybox_files does not have raises
\* KeyError, a method call on None raises AttributeError.
read_cube_maps(cube_path, printed) ==
    IF name(cube_path) \notin skybox_files_keys
    THEN [env |-> Pbr_EnvInit, out |-> printed, exc |-> "KeyError"]
    ELSE LET cubemap == read_cube_map(cube_path, skybox_files(name(cube_path)), printed)
             skybox == read_cube_map(cube_path, skybox_files(name(cube_path)),
                                     cubemap.out)
         IN  [env |-> [cubemap |-> cubemap.texture, skybox |-> skybox.texture],
              out |-> skybox.out,
              exc |-> IF skybox.texture = None THEN "AttributeError" ELSE "none"]

PbrReadCubeMap ==
    /\ pc = "pbr_cubemap"
    /\ LET r == read_cube_maps(Path(argv.path), out)
       IN  /\ env' = r.env
           /\ out' = r.out
           /\ exc' = r.exc
           /\ pc' = IF r.exc # "none" THEN "raised" ELSE "pbr_textures"
    /\ UNCHANGED <<vtk_version, argv, json, paths_ok, parameters, tex, surface, scene,
                   file_name, print_cb, keys, written>>
    /\ UNCHANGED <<sliders, props, events, locals>>

\* lines 63-68: [tex, out, exc]
get_textures(a, printed) ==
    LET material == get_texture(a.material_fn, printed)
        albedo == get_texture(a.albedo_fn, material.out)
        normal == get_texture(a.normal_fn, albedo.out)
        emissive == get_texture(a.emissive_fn, normal.out)
    IN  IF albedo.texture = None
        THEN [tex |-> [Pbr_TexInit EXCEPT !.material = material.texture,
                                          !.albedo = albedo.texture],
              out |-> albedo.out, exc |-> "AttributeError"]
        ELSE IF emissive.texture = None
        THEN [tex |-> [material |-> material.texture, albedo |-> albedo.texture,
                       normal |-> normal.texture, emissive |-> emissive.texture,
                       srgb |-> {"albedo"}],
              out |-> emissive.out, exc |-> "AttributeError"]
        ELSE [tex |-> [material |-> material.texture, albedo |-> albedo.texture,
                       normal |-> normal.texture, emissive |-> emissive.texture,
                       srgb |-> {"albedo", "emissive"}],
              out |-> emissive.out, exc |-> "none"]

PbrGetTextures ==
    /\ pc = "pbr_textures"
    /\ LET r == get_textures(argv, out)
       IN  /\ tex' = r.tex
           /\ out' = r.out
           /\ exc' = r.exc
           /\ pc' = IF r.exc # "none" THEN "raised" ELSE "pbr_surface"
    /\ UNCHANGED <<vtk_version, argv, json, paths_ok, parameters, env, surface, scene,
                   file_name, print_cb, keys, written>>
    /\ UNCHANGED <<sliders, props, events, locals>>

\* lines 71-74
Pbr_surface_of(s) ==
    IF lower(s) \notin Pbr_available_surfaces THEN N_boy ELSE lower(s)

\* lines 71-86
PbrGetSurface ==
    /\ pc = "pbr_surface"
    /\ surface' = Pbr_surface_of(argv.surface)
    /\ scene' = [scene EXCEPT !.source = Pbr_generator(surface')]
    /\ pc' = "pbr_scene"
    /\ UNCHANGED <<vtk_version, argv, json, out, exc, paths_ok, parameters, env, tex,
                   file_name, print_cb, keys, written>>
    /\ UNCHANGED <<sliders, props, events, locals>>

\* lines 154-192: what the renderer and the actor are given
Pbr_build_scene(sc, e, t, actual) ==
    [sc EXCEPT !.built = TRUE,
               !.base_color = t.albedo,
               !.orm = t.material,
               !.emissive = t.emissive,
               !.normal = t.normal,
               !.environment = e.cubemap,
               !.environment_setter = IF vtk_version_ok(actual, 9, 0, 0)
                                      THEN "SetEnvironmentTexture"
                                      ELSE "SetEnvironmentCubeMap",
               !.skybox = TRUE,
               !.skybox_texture = e.skybox,
               !.spherical_harmonics = FALSE]

\* lines 88-200: the sliders, the actor, the skybox, the slider callbacks
PbrBuildScene ==
    /\ pc = "pbr_scene"
    /\ sliders' = Pbr_add_observers(Pbr_make_sliders(Pbr_coefficients))
    /\ props' = Pbr_actor_properties(props, Pbr_coefficients)
    /\ scene' = Pbr_build_scene(scene, env, tex, vtk_version)
    /\ pc' = "pbr_show"
    /\ UNCHANGED <<vtk_version, argv, json, out, exc, paths_ok, parameters, env, tex,
                   surface, file_name, print_cb, keys, written, events, locals>>

\* lines 202-221: the window is rendered and the event loop starts
PbrShow ==
    /\ pc = "pbr_show"
    /\ scene' = [scene EXCEPT !.rendered = TRUE]
    /\ pc' = "interacting"
    /\ UNCHANGED <<vtk_version, argv, json, out, exc, paths_ok, parameters, env, tex,
                   surface, file_name, print_cb, keys, written>>
    /\ UNCHANGED <<sliders, props, events, locals>>

\* the events of the sliders are followed in SpecSliders
NextPbr ==
    \/ PbrStart
    \/ PbrReadCubeMap
    \/ PbrGetTextures
    \/ PbrGetSurface
    \/ PbrBuildScene
    \/ PbrShow
    \/ Exit

SpecPbr == InitPbr /\ [][NextPbr]_vars

-----------------------------------------------------------------------------
(* Froggie.py.  An opacity is written in tenths: 4 stands for 0.4. *)

TissueKeys == {T_blood, T_brain, T_brainbin, T_duodenum, T_eye_retna, T_eye_white, T_heart, T_ileum, T_kidney,
               T_l_intestine, T_liver, T_lung, T_nerve, T_skeleton, T_spleen,
               T_stomach, T_skin}

\* create_tissue_map giving skin the index after the last one of the table
create_tissue_map_skin_17 ==
    [k \in TissueKeys |->
          CASE k = T_blood -> <<1, "is", 10>>
            [] k = T_brain -> <<2, "is", 10>>
            [] k = T_brainbin -> <<2, "is", 10>>
            [] k = T_duodenum -> <<3, "is", 10>>
            [] k = T_eye_retna -> <<4, "is", 10>>
            [] k = T_eye_white -> <<5, "is", 10>>
            [] k = T_heart -> <<6, "is", 10>>
            [] k = T_ileum -> <<7, "is", 10>>
            [] k = T_kidney -> <<8, "is", 10>>
            [] k = T_l_intestine -> <<9, "is", 10>>
            [] k = T_liver -> <<10, "is", 10>>
            [] k = T_lung -> <<11, "is", 10>>
            [] k = T_nerve -> <<12, "is", 10>>
            [] k = T_skeleton -> <<13, "is", 10>>
            [] k = T_spleen -> <<14, "is", 10>>
            [] k = T_stomach -> <<15, "is", 10>>
            [] k = T_skin -> <<17, "hfsi", 4>>]

\* create_tissue_map: tissue |-> <<lut_index, transform, opacity>>
create_tissue_map ==
    [k \in TissueKeys |->
          CASE k = T_blood -> <<1, "is", 10>>
            [] k = T_brain -> <<2, "is", 10>>
            [] k = T_brainbin -> <<2, "is", 10>>
            [] k = T_duodenum -> <<3, "is", 10>>
            [] k = T_eye_retna -> <<4, "is", 10>>
            [] k = T_eye_white -> <<5, "is", 10>>
            [] k = T_heart -> <<6, "is", 10>>
            [] k = T_ileum -> <<7, "is", 10>>
            [] k = T_kidney -> <<8, "is", 10>>
            [] k = T_l_intestine -> <<9, "is", 10>>
            [] k = T_liver -> <<10, "is", 10>>
            [] k = T_lung -> <<11, "is", 10>>
            [] k = T_nerve -> <<12, "is", 10>>
            [] k = T_skeleton -> <<13, "is", 10>>
            [] k = T_spleen -> <<14, "is", 10>>
            [] k = T_stomach -> <<15, "is", 10>>
            [] k = T_skin -> <<16, "hfsi", 4>>]

\* create_frog_lut: the colour of each of the 17 entries of the table, 0..16
create_frog_lut ==
    [i \in 0..16 |->
        IF i = 0 THEN "black"
        ELSE <<"salmon", "beige", "orange", "misty_rose", "white", "tomato",
              "raspberry", "banana", "peru", "pink", "powder_blue", "carrot",
              "wheat", "violet", "plum", "LimeGreen">>[i]]

\* vtkLookupTable.GetNumberOfColors of the table of create_frog_lut
NumberOfColors == 17

\* the value of a call that returns nothing, and a transform
NoneValue == [kind |-> "None", ops |-> <<>>]
vtkTransform(ops) == [kind |-> "vtkTransform", ops |-> ops]

\* SliceOrder: the methods get calls.  vtkTransform.Scale returns nothing, so
\* a_p and p_a, which return its result, return None.
s_i == vtkTransform(<< <<"SetMatrix", "si_mat">> >>)
i_s == vtkTransform(<< <<"SetMatrix", "is_mat">> >>)
a_p == NoneValue
p_a == NoneValue
l_r == vtkTransform(<< <<"SetMatrix", "lr_mat">>, <<"Update">> >>)
r_l == vtkTransform(<< <<"SetMatrix", "lr_mat">> >>)
h_f == vtkTransform(<< <<"SetMatrix", "hf_mat">> >>)
hf_si == vtkTransform(<< <<"Concatenate", "hf_mat">>, <<"Concatenate", "si_mat">> >>)
hf_is == vtkTransform(<< <<"Concatenate", "hf_mat">>, <<"Concatenate", "is_mat">> >>)
hf_ap == vtkTransform(<< <<"Concatenate", "hf_mat">>, <<"Scale", "1, -1, 1">> >>)
hf_pa == vtkTransform(<< <<"Concatenate", "hf_mat">>, <<"Scale", "1, -1, -1">> >>)
hf_lr == vtkTransform(<< <<"Concatenate", "hf_mat">>, <<"Concatenate", "lr_mat">> >>)
hf_rl == vtkTransform(<< <<"Concatenate", "hf_mat">>, <<"Concatenate", "rl_mat">> >>)

\* SliceOrder.get: [value, exc, msg]
SliceOrder_get(order) ==
    LET ret(t) == [value |-> t, exc |-> "none", msg |-> <<>>]
    IN  IF order = "si" THEN ret(s_i)
        ELSE IF order = "is" THEN ret(i_s)
        ELSE IF order = "ap" THEN ret(a_p)
        ELSE IF order = "pa" THEN ret(p_a)
        ELSE IF order = "lr" THEN ret(l_r)
        ELSE IF order = "rl" THEN ret(r_l)
        ELSE IF order = "hf" THEN ret(h_f)
        ELSE IF order = "hfsi" THEN ret(hf_si)
        ELSE IF order = "hfis" THEN ret(hf_is)
        ELSE IF order = "hfap" THEN ret(hf_ap)
        ELSE IF order = "hfpa" THEN ret(hf_pa)
        ELSE IF order = "hflr" THEN ret(hf_lr)
        ELSE IF order = "hfrl" THEN ret(hf_rl)
        ELSE [value |-> NoneValue, exc |-> "Exception",
              msg |-> <<"No such transform \"", order, "\" exists.">>]

\* create_frog_actor: [actor, exc].  A method call on None raises
\* AttributeError.
create_frog_actor(fname, tissue, transform) ==
    LET trans == SliceOrder_get(transform)
        NoActor == [file_name |-> fname, transform |-> NoneValue]
    IN  IF trans.exc # "none" THEN [actor |-> NoActor, exc |-> trans.exc]
        ELSE IF tissue = T_brainbin
        THEN IF trans.value = NoneValue
             THEN [actor |-> NoActor, exc |-> "AttributeError"]
             ELSE [actor |-> [file_name |-> fname,
                              transform |-> vtkTransform(trans.value.ops
                                  \o << <<"Scale", "1, -1, 1">>, <<"RotateZ", "180">> >>)],
                   exc |-> "none"]
        ELSE [actor |-> [file_name |-> fname, transform |-> trans.value],
              exc |-> "none"]

\* the command lines: a folder, one or more tissue names, a view ("" when no
\* view is asked for)
DataFolders == {<<"f">>, <<"g">>, <<"f", "/">> \o T_blood \o S_vtk}
TissueNames == {T_blood, T_brainbin, T_skin, T_lung, N_frog, N_tail}
Views == {"", "a", "c", "d"}

RECURSIVE SeqsOf(_, _)
SeqsOf(S, n) ==
    IF n = 0 THEN {<<>>}
    ELSE LET shorter == SeqsOf(S, n - 1)
         IN  shorter \cup {Append(t, x) : t \in {u \in shorter : Len(u) = n - 1}, x \in S}

\* the local source of main before its first assignment
Unbound == [abs |-> FALSE, parts |-> << <<"<unbound>">> >>]

Frog_Locals == [tm |-> EmptyDict, color_lut |-> EmptyDict, res |-> <<>>, i |-> 1,
                source |-> Unbound, actors |-> <<>>, view |-> ""]

InitFrog ==
    \E d \in DataFolders : \E t \in SeqsOf(TissueNames, MaxTissues) \ {<<>>} :
        \E v \in Views :
            InitAt("frog_start", Base("$vtk").val,
                   [data_folder |-> d, tissues |-> t, view |-> v], Frog_Locals,
                   EnvInit, TexInit, SceneInit)

\* lines 9-21
FrogStart ==
    /\ pc = "frog_start"
    /\ locals' = [locals EXCEPT !.tm = create_tissue_map, !.color_lut = create_frog_lut,
                                !.res = <<>>]
    /\ pc' = "frog_loop"
    /\ UNCHANGED <<vtk_version, argv, json, out, exc, paths_ok, parameters, env, tex,
                   surface, scene, file_name, print_cb, keys, written, sliders, props,
                   events>>

\* color_lut.GetTableValue(indx): what the toolkit answers for an index outside
\* the table is not followed
GetTableValue(lut, indx) == IF indx \in DOMAIN lut THEN lut[indx] ELSE "none"

\* lines 29-35, with source as the loop has left it: [locals, exc].  The
\* arguments of create_frog_actor are evaluated from left to right; reading
\* source before it is assigned raises UnboundLocalError, a tissue that is not
\* a key of tm raises KeyError.
add_tissue(l, tissue) ==
    IF l.source = Unbound THEN [locals |-> l, exc |-> "UnboundLocalError"]
    ELSE IF tissue \notin DOMAIN l.tm THEN [locals |-> l, exc |-> "KeyError"]
    ELSE LET r == create_frog_actor(l.source, tissue, l.tm[tissue][2])
         IN  IF r.exc # "none" THEN [locals |-> l, exc |-> r.exc]
             ELSE [locals |->
                     [l EXCEPT !.actors = Append(@,
                                   [file_name |-> r.actor.file_name,
                                    transform |-> r.actor.transform,
                                    opacity |-> l.tm[tissue][3],
                                    diffuse_color |->
                                        GetTableValue(l.color_lut, l.tm[tissue][1])]),
                               !.res = Append(@, [tissue |-> tissue,
                                                  label |-> l.tm[tissue][1]])],
                   exc |-> "none"]

\* lines 22-35 without the continue of line 28
frog_tissue_no_continue(path, tissue, l, printed) ==
    IF is_dir(path)
    THEN IF with_suffix_raises(join(path, tissue))
         THEN [locals |-> l, out |-> printed, exc |-> "ValueError"]
         ELSE LET source == with_suffix(join(path, tissue), S_vtk)
                  l1 == [l EXCEPT !.source = source]
                  r == add_tissue(l1, tissue)
              IN  [locals |-> r.locals,
                   out |-> IF ~is_file(source)
                           THEN Append(printed, "The file: {:s} does not exist.")
                           ELSE printed,
                   exc |-> r.exc]
    ELSE LET r == add_tissue(l, tissue)
         IN  [locals |-> r.locals, out |-> printed, exc |-> r.exc]

\* lines 22-35, one turn of the loop: [locals, out, exc]
frog_tissue(path, tissue, l, printed) ==
    IF is_dir(path)
    THEN IF with_suffix_raises(join(path, tissue))
         THEN [locals |-> l, out |-> printed, exc |-> "ValueError"]
         ELSE LET source == with_suffix(join(path, tissue), S_vtk)
                  l1 == [l EXCEPT !.source = source]
              IN  IF ~is_file(source)
                  THEN [locals |-> l1,
                        out |-> Append(printed, "The file: {:s} does not exist."),
                        exc |-> "none"]
                  ELSE LET r == add_tissue(l1, tissue)
                       IN  [locals |-> r.locals, out |-> printed, exc |-> r.exc]
    ELSE LET r == add_tissue(l, tissue)
         IN  [locals |-> r.locals, out |-> printed, exc |-> r.exc]

\* lines 22-35: the next tissue of the command line
FrogTissue ==
    /\ pc = "frog_loop"
    /\ locals.i <= Len(argv.tissues)
    /\ LET r == frog_tissue(Path(argv.data_folder), argv.tissues[locals.i], locals, out)
       IN  /\ locals' = [r.locals EXCEPT !.i = IF r.exc = "none" THEN @ + 1 ELSE @]
           /\ out' = r.out
           /\ exc' = r.exc
           /\ pc' = IF r.exc # "none" THEN "raised" ELSE "frog_loop"
    /\ UNCHANGED <<vtk_version, argv, json, paths_ok, parameters, env, tex, surface,
                   scene, file_name, print_cb, keys, written, sliders, props, events>>

\* lines 37-89: the tissues are printed, the view is set, the window is
\* rendered and the event loop starts
FrogShow ==
    /\ pc = "frog_loop"
    /\ locals.i > Len(argv.tissues)
    /\ out' = Append(out, "Using the following tissues:")
    /\ locals' = [locals EXCEPT !.view = IF argv.view \in {"a", "c", "d"}
                                         THEN argv.view ELSE "initial"]
    /\ pc' = "interacting"
    /\ UNCHANGED <<vtk_version, argv, json, exc, paths_ok, parameters, env, tex,
                   surface, scene, file_name, print_cb, keys, written, sliders, props,
                   events>>

NextFrog ==
    \/ FrogStart
    \/ FrogTissue
    \/ FrogShow
    \/ Exit

SpecFrog == InitFrog /\ [][NextFrog]_vars

-----------------------------------------------------------------------------
(* Single calls of vtk_version_ok and of SliceOrder.get, on any argument *)

ActualVersions == {<<8, 2, 0>>, <<8, 90, 0>>, <<9, 0, 0>>, <<9, 0, 20210718>>, <<9, 3, 0>>}
Majors == {8, 9}
Minors == {0, 90, 100}
Builds == {0, 1, 20210718}

\* the thirteen codes of SliceOrder.get and other strings
Orders == {"si", "is", "ap", "pa", "lr", "rl", "hf", "hfsi", "hfis", "hfap", "hfpa",
           "hflr", "hfrl", "", "SI", "s", "sih", "hfx", "xx"}

InitCalls ==
    \/ \E v \in ActualVersions : \E major \in Majors : \E minor \in Minors :
          \E build \in Builds :
             InitAt("call", v, ArgvOf([k \in InputKeys |-> Base(k)]),
                    [fn |-> "vtk_version_ok", major |-> major, minor |-> minor,
                     build |-> build],
                    EnvInit, TexInit, SceneInit)
    \/ \E order \in Orders :
          InitAt("call", Base("$vtk").val, ArgvOf([k \in InputKeys |-> Base(k)]),
                 [fn |-> "SliceOrder.get", order |-> order],
                 EnvInit, TexInit, SceneInit)

\* vtk_version_ok(major, minor, build)
CallVtkVersionOk ==
    /\ pc = "call"
    /\ locals.fn = "vtk_version_ok"
    /\ locals' = [fn |-> locals.fn, major |-> locals.major, minor |-> locals.minor,
                  build |-> locals.build,
                  result |-> vtk_version_ok(vtk_version, locals.major, locals.minor,
                                            locals.build)]
    /\ pc' = "returned"
    /\ UNCHANGED <<vtk_version, argv, json, out, exc, paths_ok, parameters, env, tex,
                   surface, scene, file_name, print_cb, keys, written, sliders, props,
                   events>>

\* SliceOrder().get(order)
CallSliceOrderGet ==
    /\ pc = "call"
    /\ locals.fn = "SliceOrder.get"
    /\ LET r == SliceOrder_get(locals.order)
       IN  /\ locals' = [fn |-> locals.fn, order |-> locals.order, result |-> r.value,
                         msg |-> r.msg]
           /\ exc' = r.exc
           /\ pc' = IF r.exc # "none" THEN "raised" ELSE "returned"
    /\ UNCHANGED <<vtk_version, argv, json, out, paths_ok, parameters, env, tex,
                   surface, scene, file_name, print_cb, keys, written, sliders, props,
                   events>>

NextCalls ==
    \/ CallVtkVersionOk
    \/ CallSliceOrderGet

SpecCalls == InitCalls /\ [][NextCalls]_vars

-----------------------------------------------------------------------------
(* The mains of the two rendering scripts together *)

InitGate == Init \/ InitPbr

NextGate == Next \/ NextPbr

SpecGate == InitGate /\ [][NextGate]_vars

-----------------------------------------------------------------------------
(* The sliders on their own: main has assembled the scene, the sliders are *)
(* made and the interactor delivers their interaction events.              *)

Scripts == {"PBR_Skybox_Texturing", "PhysicallyBasedRendering"}

InitSliders ==
    \E script \in Scripts :
        InitAt("sliders", Base("$vtk").val, ArgvOf([k \in InputKeys |-> Base(k)]),
               [script |-> script], EnvInit, TexInit, SceneInit)

\* the sliders main makes and the values it sets on the actor's property
sliders_of(script) ==
    IF script = "PBR_Skybox_Texturing" THEN make_sliders(coefficients)
    ELSE Pbr_add_observers(Pbr_make_sliders(Pbr_coefficients))

props_of(script) ==
    IF script = "PBR_Skybox_Texturing" THEN actor_properties(NoProps, coefficients)
    ELSE Pbr_actor_properties(NoProps, Pbr_coefficients)

\* PBR_Skybox_Texturing main, lines 284-391, and PhysicallyBasedRendering main,
\* lines 112-200
SlidersNew ==
    /\ pc = "sliders"
    /\ sliders' = sliders_of(locals.script)
    /\ props' = props_of(locals.script)
    /\ pc' = "interacting"
    /\ UNCHANGED <<vtk_version, argv, json, out, exc, paths_ok, parameters, env, tex,
                   surface, scene, file_name, print_cb, keys, written, events, locals>>

\* an InteractionEvent of one slider widget: the drag has left the slider at a
\* value and the observer of the widget is called
SliderInteraction ==
    /\ pc = "interacting"
    /\ Len(events) < MaxSliderEvents
    /\ \E s \in DOMAIN sliders : \E v \in SliderValues(sliders[s]) :
          /\ sliders' = [sliders EXCEPT ![s].value = v]
          /\ props' = InteractionEvent(sliders'[s], props)
          /\ events' = Append(events, <<s, v>>)
    /\ UNCHANGED <<vtk_version, argv, json, pc, out, exc, paths_ok, parameters, env,
                   tex, surface, scene, file_name, print_cb, keys, written, locals>>

NextSliders ==
    \/ SlidersNew
    \/ SliderInteraction
    \/ Exit

SpecSliders == InitSliders /\ [][NextSliders]_vars

-----------------------------------------------------------------------------
(* Properties of the sliders, under SpecSliders *)

\* the property the slider of a title is to control
Controlled(title) ==
    CASE title = "Exposure" -> "exposure"
      [] title = "Metallicity" -> "metallic"
      [] title = "Roughness" -> "roughness"
      [] title = "Occlusion" -> "occlusion_strength"
      [] title = "Normal" -> "normal_scale"

\* the events of the slider s
EventsOf(s) == {i \in 1..Len(events) : events[i][1] = s}

\* the value of the last event of the slider s
LastValue(s) ==
    events[CHOOSE i \in EventsOf(s) : \A j \in EventsOf(s) : j <= i][2]

\* C11: an interaction event on the Exposure, Metallicity, Roughness, Occlusion
\* or Normal slider sets the tone-mapping exposure, the actor's metallic,
\* roughness, occlusion strength or normal scale to the value of that slider
\* and leaves the other properties and the values of the other sliders as they
\* were, for every sequence of slider events: each slider holds the value of
\* its last event (its initial value if it had none), and each property holds
\* the value of the last event of its slider (what main set if it had none).
C11_SliderSetsOneProperty ==
    pc \in {"interacting", "exited"} =>
        /\ DOMAIN sliders = DOMAIN sliders_of(locals.script)
        /\ \A s \in DOMAIN sliders :
              LET p == Controlled(sliders[s].title)
              IN  IF EventsOf(s) # {}
                  THEN /\ sliders[s].value = LastValue(s)
                       /\ p \in DOMAIN props
                       /\ props[p] = LastValue(s)
                  ELSE /\ sliders[s] = sliders_of(locals.script)[s]
                       /\ (p \in DOMAIN props) = (p \in DOMAIN props_of(locals.script))
                       /\ p \in DOMAIN props => props[p] = props_of(locals.script)[p]
        /\ \A p \in DOMAIN props :
              \/ \E s \in DOMAIN sliders : p = Controlled(sliders[s].title)
              \/ p \in DOMAIN props_of(locals.script) /\ props[p] = props_of(locals.script)[p]

C11_Witness ==
    /\ pc = "interacting"
    /\ Len(events) = 3
    /\ events[1][1] # events[2][1]
    /\ events[3][1] = events[1][1]
    /\ events[3][2] # events[1][2]
    /\ "exposure" \in DOMAIN props
    /\ props["roughness"] # props_of(locals.script)["roughness"]

-----------------------------------------------------------------------------
(* Properties of PhysicallyBasedRendering main, under SpecPbr *)

Pbr_VersionOk == vtk_version_ok(vtk_version, 8, 90, 0)

\* the folder of the command line is not a directory, is not named after a
\* key of skybox_files, or lacks one of the six files of its key
CubemapFailure ==
    LET cube_path == Path(argv.path)
    IN  \/ ~is_dir(cube_path)
        \/ name(cube_path) \notin skybox_files_keys
        \/ /\ name(cube_path) \in skybox_files_keys
           /\ \E i \in 1..Len(skybox_files(name(cube_path))) :
                 ~is_file(join(cube_path, skybox_files(name(cube_path))[i]))

\* C12: in PhysicallyBasedRendering main every cubemap failure (the path is not
\* a directory, the name of the directory is not skybox0, skybox1 or skybox2,
\* one of the six files is missing) is reported by a printed message and makes
\* main return early, with no exception and no method called on None.
C12_CubemapFailureReturnsEarly ==
    (pc \notin {"pbr_start", "pbr_cubemap"} /\ Pbr_VersionOk /\ CubemapFailure)
        => /\ pc = "returned"
           /\ exc = "none"
           /\ Len(out) > 0

\* a texture file that does not exist or has an extension get_texture refuses
TextureFailure(fn) ==
    \/ ~is_file(Path(fn))
    \/ lower(suffix(Path(fn))) \notin Pbr_valid_extensions

\* main has read the two cube maps and is past the reading of the textures
Pbr_PastTextures ==
    /\ pc \notin {"pbr_start", "pbr_cubemap", "pbr_textures"}
    /\ env.cubemap # None /\ env.cubemap # Unset
    /\ env.skybox # None /\ env.skybox # Unset

\* C13: in PhysicallyBasedRendering main, when one of the material, albedo,
\* normal and emissive files does not exist or has a lower-cased extension that
\* is not a valid one, get_texture prints a message and returns None and main
\* returns early: no method is called on a None texture, no None texture is
\* attached to the actor and no exception leaves main.
C13_TextureFailureReturnsEarly ==
    (Pbr_PastTextures
     /\ \E fn \in {argv.material_fn, argv.albedo_fn, argv.normal_fn, argv.emissive_fn} :
            TextureFailure(fn))
        => /\ pc = "returned"
           /\ exc = "none"
           /\ Len(out) > 0
           /\ None \notin {scene.base_color, scene.orm, scene.emissive, scene.normal}

-----------------------------------------------------------------------------
(* Properties of Froggie main, under SpecFrog *)

\* C14: in Froggie main, for every data_folder and every non-empty list of
\* tissue names (a data_folder that is not a directory and names that are not
\* keys of the tissue map included), each failure is reported by a printed
\* message and no exception leaves main.
C14_FroggieRaisesNothing ==
    /\ exc = "none"
    /\ pc # "raised"
    /\ pc \in {"interacting", "exited"} =>
          Len(out) + Len(locals.actors) = Len(argv.tissues) + 1

\* the tissues of the table tm that have the colour index n
WithIndex(tm, n) == {k \in DOMAIN tm : tm[k][1] = n}

\* C15: the tissue lookup table is well formed: each of its 17 tissue names
\* maps to a triple (colour index, transform code, opacity) whose colour index
\* is an index 1..16 of the 17-entry table of create_frog_lut, whose transform
\* code is one for which SliceOrder.get returns a transform without raising, and
\* whose opacity is in (0, 1]; brain and brainbin share the index 2 and no other
\* two tissues share an index.
C15_TissueMapWellFormed ==
    pc \notin {"frog_start"} =>
        LET tm == locals.tm
            lut == locals.color_lut
        IN  /\ Cardinality(DOMAIN tm) = 17
            /\ Cardinality(DOMAIN lut) = 17
            /\ \A k \in DOMAIN tm :
                  /\ tm[k][1] \in 1..16
                  /\ tm[k][1] \in DOMAIN lut
                  /\ SliceOrder_get(tm[k][2]).exc = "none"
                  /\ SliceOrder_get(tm[k][2]).value.kind = "vtkTransform"
                  /\ tm[k][3] > 0
                  /\ tm[k][3] <= 10
            /\ WithIndex(tm, 2) = {T_brain, T_brainbin}
            /\ \A n \in (1..16) \ {2} : Cardinality(WithIndex(tm, n)) = 1

C15_Witness ==
    /\ pc = "interacting"
    /\ Len(locals.actors) = 2
    /\ locals.actors[1].opacity = 4
    /\ locals.actors[2].diffuse_color = "beige"

-----------------------------------------------------------------------------
(* Properties of single calls, under SpecCalls *)

\* C16: vtk_version_ok(major, minor, build) returns True exactly when the
\* requested version (major, minor, build) is greater than or equal to the
\* actual version of the toolkit, and False otherwise.
C16_TrueWhenRequestedAtLeastActual ==
    (pc = "returned" /\ locals.fn = "vtk_version_ok")
        => locals.result =
              number_ge(version_number(locals.major, locals.minor, locals.build),
                        version_number(vtk_version[1], vtk_version[2], vtk_version[3]))

ThirteenCodes == {"si", "is", "ap", "pa", "lr", "rl", "hf", "hfsi", "hfis", "hfap",
                  "hfpa", "hflr", "hfrl"}

\* C17: SliceOrder.get(order) returns a transform object, never None, for each
\* of the thirteen codes si, is, ap, pa, lr, rl, hf, hfsi, hfis, hfap, hfpa,
\* hflr, hfrl, and for every other string raises an exception with the message
\* 'No such transform "<order>" exists.'.
C17_GetReturnsTransform ==
    (pc # "call" /\ locals.fn = "SliceOrder.get")
        => IF locals.order \in ThirteenCodes
           THEN /\ pc = "returned"
                /\ exc = "none"
                /\ locals.result # NoneValue
                /\ locals.result.kind = "vtkTransform"
           ELSE /\ pc = "raised"
                /\ exc = "Exception"
                /\ locals.msg = <<"No such transform \"", locals.order, "\" exists.">>

-----------------------------------------------------------------------------
(* Properties of the two mains together, under SpecGate *)

\* the version v is the version w or a later one
AtLeast(v, w) ==
    \/ v[1] > w[1]
    \/ v[1] = w[1] /\ v[2] > w[2]
    \/ v[1] = w[1] /\ v[2] = w[2] /\ v[3] >= w[3]

\* main has gone past its first check with the version w needed, or has printed
\* msg and returned with nothing else done
GateOf(first, w, msg) ==
    pc # first =>
        IF AtLeast(vtk_version, w)
        THEN ~Printed(msg)
        ELSE /\ pc = "returned"
             /\ out = <<msg>>
             /\ exc = "none"
             /\ parameters = EmptyDict
             /\ ~scene.built

\* C18: PBR_Skybox_Texturing main goes past its first check if and only if the
\* actual version of the toolkit is 9.0.0 or greater, PhysicallyBasedRendering
\* main if and only if it is 8.90.0 or greater; otherwise main prints 'You need
\* VTK version ... or greater' and returns before it parses any argument.
C18_VersionGate ==
    IF "script" \in DOMAIN locals
    THEN GateOf("pbr_start", <<8, 90, 0>>,
                "You need VTK version 8.90 or greater to run this program.")
    ELSE GateOf("start", <<9, 0, 0>>,
                "You need VTK version 9.0 or greater to run this program.")

C18_Witness ==
    /\ "script" \notin DOMAIN locals
    /\ vtk_version = <<8, 90, 0>>
    /\ pc = "returned"
    /\ out = <<"You need VTK version 9.0 or greater to run this program.">>

-----------------------------------------------------------------------------
(* Further properties of PBR_Skybox_Texturing main, under Spec *)

\* C19: a skybox actor is added to the object renderer only when the skybox
\* parameter is true: for every valid parameter file and every value of the -c
\* flag, if parameters['skybox'] is false then has_cube_map is false when the
\* scene is assembled and no vtkSkybox actor is added.
C19_SkyboxOnlyWhenAsked ==
    (pc \in {"build_scene", "show", "interacting", "exited"} /\ ~parameters["skybox"])
        => /\ ~env.has_cube_map
           /\ ~scene.skybox

\* C20: the equirectangular environment is treated as HDR (is_hdr and
\* gamma_correct True, hence spherical harmonics on and the gamma correction
\* of the skybox on) if and only if the lower-cased suffix of the
\* equirectangular file is exactly .hdr or .pic; for every other suffix, an
\* empty one and .h or .p included, both flags stay False.
C20_HdrBySuffix ==
    (PastEnvironment /\ env.has_env_texture)
        => LET hdr == lower(suffix(parameters["equirectangular"])) \in {S_hdr, S_pic}
           IN  /\ env.is_hdr = hdr
               /\ env.gamma_correct = hdr
               /\ scene.built =>
                     /\ scene.spherical_harmonics = hdr
                     /\ scene.skybox_gamma = (hdr /\ env.has_cube_map)

-----------------------------------------------------------------------------
(* Defaults, environment, surface and order of the checks, under Spec and *)
(* SpecGate                                                                *)

\* the four textures of the parameter file exist and have an extension
\* read_texture accepts
TexturesReadable ==
    \A k \in {"albedo", "normal", "material", "emissive"} :
        /\ ~MissingTexture(k)
        /\ is_file(join(parent(FnPath), json[k]))
        /\ lower(suffix(join(parent(FnPath), json[k]))) \in valid_extensions

\* the parameter file names an environment that can be read
EnvironmentGiven ==
    \/ "cubemap" \in DOMAIN json
    \/ /\ "equirectangular" \in DOMAIN json
       /\ json["equirectangular"] # <<>>
       /\ equirectangular_file_to_texture(join(parent(FnPath), json["equirectangular"]),
                                          <<>>).texture # None

\* a parameter file that is valid whatever becomes of bkgcolor, objcolor and skybox
OtherwiseValid ==
    /\ VersionOk
    /\ is_file(FnPath)
    /\ ValidJson
    /\ TexturesReadable
    /\ EnvironmentGiven

\* the value json gives a key, else the default
JsonOr(k, default) == IF k \in DOMAIN json THEN json[k] ELSE default

\* C21: main checks for missing parameters and supplies defaults: a parameter
\* file that is otherwise valid but lacks the bkgcolor, objcolor or skybox key is
\* accepted, the missing keys take the values BkgColor, White and False, and
\* main reaches the scene assembly without raising.
C21_DefaultsSupplied ==
    (pc \notin {"start", "get_parameters", "check_textures", "choose_env"}
     /\ OtherwiseValid
     /\ \E k \in {"bkgcolor", "objcolor", "skybox"} : k \notin DOMAIN json)
        => /\ exc = "none"
           /\ pc \notin {"raised", "returned"}
           /\ pc \in {"show", "interacting", "exited"} =>
                 /\ parameters["bkgcolor"] = JsonOr("bkgcolor", "BkgColor")
                 /\ parameters["objcolor"] = JsonOr("objcolor", "White")
                 /\ parameters["skybox"] = JsonOr("skybox", FALSE)

\* check_for_missing_textures of line 116 returns True
HaveTextures == check_for_missing_textures(parameters, wanted_textures, <<>>).have_textures

\* C22: an environment texture is required: for a parameter file that passes the
\* path validation and has its four textures and a skybox key but neither an
\* equirectangular nor a cubemap key, main prints 'An environment texture is
\* required' and returns before it reads any texture; and whenever main is past
\* the environment selection, has_env_texture or has_cube_map is True.
C22_EnvironmentRequired ==
    /\ (pc \notin {"start", "get_parameters", "check_textures", "choose_env"}
        /\ VersionOk /\ paths_ok /\ HaveTextures
        /\ "skybox" \in DOMAIN parameters
        /\ "equirectangular" \notin DOMAIN json /\ "cubemap" \notin DOMAIN json)
          => /\ pc = "returned"
             /\ exc = "none"
             /\ Printed("An environment texture is required,")
             /\ tex = TexInit
             /\ scene = SceneInit
    /\ PastEnvironment => (env.has_env_texture \/ env.has_cube_map)

C22_Witness ==
    /\ pc = "returned"
    /\ paths_ok /\ HaveTextures
    /\ "skybox" \in DOMAIN json
    /\ "equirectangular" \notin DOMAIN json /\ "cubemap" \notin DOMAIN json
    /\ Printed("An environment texture is required,")

\* the run is one of PBR_Skybox_Texturing, of PhysicallyBasedRendering
IsSkyboxRun == "fn" \in DOMAIN argv
IsPbrRun == "path" \in DOMAIN argv

\* the generator function of each surface name
GeneratorNamed ==
    [s \in {N_boy, N_mobius, N_randomhills, N_torus, N_sphere, N_cube, N_clippedsphere,
            N_clippedcube} |->
        IF s = N_boy THEN "get_boy"
        ELSE IF s = N_mobius THEN "get_mobius"
        ELSE IF s = N_randomhills THEN "get_random_hills"
        ELSE IF s = N_torus THEN "get_torus"
        ELSE IF s = N_sphere THEN "get_sphere"
        ELSE IF s = N_cube THEN "get_cube"
        ELSE IF s = N_clippedsphere THEN "get_clipped_sphere"
        ELSE "get_clipped_cube"]

\* the surface the claim selects for a requested name among the names allowed
Selected(requested, allowed) ==
    IF lower(requested) \in allowed THEN lower(requested) ELSE N_boy

\* C23: surface selection is case-insensitive and total: in both scripts the
\* requested name is lower-cased, a name of the script's available surfaces
\* (boy, mobius, randomhills, torus, sphere, cube, and clippedsphere and
\* clippedcube in PBR_Skybox_Texturing only) selects the generator of that
\* name and every other name, the empty one included, selects Boy's surface;
\* one generator function is called in a run.
C23_SurfaceSelection ==
    /\ (IsSkyboxRun /\ pc \in {"build_scene", "show", "interacting", "exited"})
          => /\ surface = Selected(parameters["object"],
                                   {N_boy, N_mobius, N_randomhills, N_torus, N_sphere,
                                    N_cube, N_clippedsphere, N_clippedcube})
             /\ scene.source = GeneratorNamed[surface]
    /\ (IsPbrRun /\ pc \in {"pbr_scene", "pbr_show", "interacting", "exited"})
          => /\ surface = Selected(argv.surface,
                                   {N_boy, N_mobius, N_randomhills, N_torus, N_sphere,
                                    N_cube})
             /\ scene.source = GeneratorNamed[surface]
    /\ (pc \in {"start", "get_parameters", "check_textures", "choose_env", "read_textures",
                "get_surface", "pbr_start", "pbr_cubemap", "pbr_textures", "pbr_surface"})
          => scene.source = "none"

\* a run of PBR_Skybox_Texturing that asks for ClippedCube in mixed case
C23_Witness ==
    /\ IsSkyboxRun
    /\ pc = "interacting"
    /\ parameters["object"] = N_ClippedCube
    /\ scene.source = "get_clipped_cube"

\* the four checks of lines 98-153 have passed
ChecksPassed ==
    /\ AtLeast(vtk_version, <<9, 0, 0>>)
    /\ paths_ok
    /\ HaveTextures
    /\ env.has_env_texture \/ env.has_cube_map

\* C24: validation precedes display: the render window is rendered and the
\* event loop of the interactor is started only in runs where the version
\* check passed, get_parameters returned paths_ok = True,
\* check_for_missing_textures returned True and an environment source was
\* selected; in a run where one of these checks fails no renderer, window or
\* slider is created and no callback is registered or invoked.
C24_ValidationPrecedesDisplay ==
    /\ (scene.rendered \/ pc \in {"interacting", "exited"}) => ChecksPassed
    /\ ~ChecksPassed =>
          /\ ~scene.built /\ ~scene.rendered
          /\ sliders = NoSliders
          /\ props = NoProps
          /\ print_cb = NoCallback
          /\ keys = <<>> /\ written = <<>> /\ events = <<>>

\* the event loop runs and a key has been pressed
C24_Witness ==
    /\ pc = "interacting"
    /\ scene.rendered
    /\ Len(keys) > 0
    /\ ChecksPassed

-----------------------------------------------------------------------------
(* Ranges and initial values of the sliders, under SpecSliders.  Values are *)
(* in tenths: 50 stands for 5.                                              *)

\* the range each slider of PBR_Skybox_Texturing is to have
RangeOf ==
    [sw_exposure |-> <<0, 50>>, sw_metallic |-> <<0, 10>>, sw_roughnesss |-> <<0, 10>>,
     sw_occlusion_strength |-> <<0, 10>>, sw_normal |-> <<0, 50>>]

\* the value each slider of PBR_Skybox_Texturing controls
ControlledBy ==
    [sw_exposure |-> "exposure", sw_metallic |-> "metallic", sw_roughnesss |-> "roughness",
     sw_occlusion_strength |-> "occlusion_strength", sw_normal |-> "normal_scale"]

Within(v, range) == range[1] <= v /\ v <= range[2]

MaterialSliders(sw) == {s \in DOMAIN sw : sw[s].title # "Exposure"}

\* C26: in both scripts each of the Metallicity, Roughness, Occlusion and Normal
\* sliders is created with an initial value that equals the value main sets on
\* the actor for the property it controls and that lies within the minimum and
\* maximum of the slider; so the value of the slider and the value of the
\* property agree before the first interaction and after every interaction
\* event of that slider.
C26_SliderAgreesWithProperty ==
    pc \in {"interacting", "exited"} =>
        /\ Cardinality(MaterialSliders(sliders)) = 4
        /\ \A s \in MaterialSliders(sliders) :
              LET p == Controlled(sliders[s].title)
                  made == sliders_of(locals.script)[s]
              IN  /\ made.value = props_of(locals.script)[p]
                  /\ Within(made.value, <<made.minimum, made.maximum>>)
                  /\ sliders[s].value = props[p]

\* the roughness slider of PhysicallyBasedRendering has been dragged
C26_Witness ==
    /\ locals.script = "PhysicallyBasedRendering"
    /\ pc = "interacting"
    /\ Len(events) >= 1
    /\ events[Len(events)][1] = "slider_widget_roughness"
    /\ props["roughness"] # props_of(locals.script)["roughness"]
    /\ props["roughness"] = sliders["slider_widget_roughness"].value

-----------------------------------------------------------------------------
(* The actors of Froggie main, under SpecFrog *)

\* the file main looks for, for a tissue
TissueFile(tissue) == with_suffix(join(Path(argv.data_folder), tissue), S_vtk)

HasFile(tissue) == is_file(TissueFile(tissue))

\* the first n requested tissues, and those of them whose file exists
Requested(n) == SubSeq(argv.tissues, 1, n)
Present(n) == SelectSeq(Requested(n), HasFile)

\* the messages about missing files printed so far
MissingReports == Cardinality({i \in 1..Len(out) : out[i] = "The file: {:s} does not exist."})

\* the renderer holds one actor for each of the first n tissues whose file
\* exists, in the order of the request, and each missing file was reported
ActorsFor(n) ==
    /\ Len(locals.actors) = Len(Present(n))
    /\ \A i \in 1..Len(Present(n)) :
          LET tissue == Present(n)[i]
              actor == locals.actors[i]
          IN  /\ actor.file_name = TissueFile(tissue)
              /\ actor.opacity = create_tissue_map[tissue][3]
              /\ actor.diffuse_color = create_frog_lut[create_tissue_map[tissue][1]]
    /\ MissingReports = n - Len(Present(n))

\* C27: when data_folder is a directory and every requested tissue name is a
\* key of the tissue map, the renderer ends with exactly one actor for each
\* requested tissue whose <tissue>.vtk file exists, added in request order,
\* each with the opacity and the lookup-table colour of its tissue; a tissue
\* whose file is missing is reported with 'The file: ... does not exist.' and
\* skipped, and the tissues after it are still processed.
C27_OneActorPerTissue ==
    (is_dir(Path(argv.data_folder)) /\ \A i \in 1..Len(argv.tissues) :
                                           argv.tissues[i] \in TissueKeys)
        => /\ exc = "none"
           /\ pc # "raised"
           /\ pc = "frog_loop" => ActorsFor(locals.i - 1)
           /\ pc \in {"interacting", "exited"} => ActorsFor(Len(argv.tissues))

\* the file of the first tissue is missing and the second tissue has its actor
C27_Witness ==
    /\ pc = "interacting"
    /\ is_dir(Path(argv.data_folder))
    /\ Len(argv.tissues) = 2
    /\ argv.tissues[1] \in TissueKeys /\ ~HasFile(argv.tissues[1])
    /\ argv.tissues[2] \in TissueKeys /\ HasFile(argv.tissues[2])
    /\ Len(locals.actors) = 1
    /\ MissingReports = 1

====
